---- MODULE Spec2Model ----
(***************************************************************************)
(* Model of the code generator and the virtual machine of src/src/vm.rs:   *)
(* compile / compile_block / compile_stmt / compile_expr lower an AST      *)
(* (src/src/ast.rs) to a Vec<Instruction>, and VM::run executes it with an *)
(* i32 accumulator, a Vec<i32> operand stack and a usize program counter.  *)
(* And of the lexer of src/src/lexer.rs: Lexer::next_token turns a source  *)
(* text into tokens, one per call.                                         *)
(***************************************************************************)
EXTENDS Integers, Sequences, FiniteSets, TLC

(***************************************************************************)
(* The i32 cell type of VM.acc and VM.stack.  Every operator below stays   *)
(* inside the i32 range while it computes.                                 *)
(***************************************************************************)
I32Max == 2147483647
I32Min == -I32Max - 1
I32Bits == 32
Base16 == 256 * 256
Half16 == Base16 \div 2

Abs(x) == IF x < 0 THEN -x ELSE x

\* The unsigned 16-bit halves of an i32 bit pattern, and the way back.
HiU(x) == (x \div Base16) % Base16
LoU(x) == x % Base16
FromHalves(hi, lo) == (IF hi >= Half16 THEN hi - Base16 ELSE hi) * Base16 + lo

\* i32::wrapping_add / wrapping_sub / wrapping_neg
WrapAdd(a, b) ==
    LET lo == LoU(a) + LoU(b)
        hi == (HiU(a) + HiU(b) + (lo \div Base16)) % Base16
    IN FromHalves(hi, lo % Base16)
WrapNeg(a) == IF a = I32Min THEN I32Min ELSE -a
WrapSub(a, b) == WrapAdd(a, WrapNeg(b))

\* i32::wrapping_mul: the low four bytes of the schoolbook product
Byte(x, i) == (x \div (256 ^ i)) % 256
FromBytes(d3, d2, d1, d0) ==
    (IF d3 >= 128 THEN d3 - 256 ELSE d3) * (256 ^ 3) + d2 * (256 ^ 2) + d1 * 256 + d0
WrapMul(a, b) ==
    LET r0 == Byte(a, 0) * Byte(b, 0)
        r1 == Byte(a, 0) * Byte(b, 1) + Byte(a, 1) * Byte(b, 0) + (r0 \div 256)
        r2 == Byte(a, 0) * Byte(b, 2) + Byte(a, 1) * Byte(b, 1) + Byte(a, 2) * Byte(b, 0)
              + (r1 \div 256)
        r3 == Byte(a, 0) * Byte(b, 3) + Byte(a, 1) * Byte(b, 2) + Byte(a, 2) * Byte(b, 1)
              + Byte(a, 3) * Byte(b, 0) + (r2 \div 256)
    IN FromBytes(r3 % 256, r2 % 256, r1 % 256, r0 % 256)

\* checked_add / checked_sub / checked_mul succeed
AddFits(a, b) == IF b >= 0 THEN a <= I32Max - b ELSE a >= I32Min - b
SubFits(a, b) == IF b >= 0 THEN a >= I32Min + b ELSE a <= I32Max + b
MulFits(a, b) ==
    IF a = 0 \/ b = 0 THEN TRUE
    ELSE IF a = I32Min THEN b = 1
    ELSE IF b = I32Min THEN a = 1
    ELSE IF Abs(a) = 1 \/ Abs(b) = 1 THEN TRUE
    ELSE IF (a > 0) = (b > 0) THEN Abs(a) <= I32Max \div Abs(b)
    ELSE LET q == I32Max \div Abs(b)
             lim == IF I32Max % Abs(b) = Abs(b) - 1 THEN q + 1 ELSE q
         IN Abs(a) <= lim

\* i32 `/` and `%` truncate toward zero; the divisor is non-zero and the
\* pair is not (I32Min, -1).
TruncDiv(a, b) ==
    IF b = I32Min THEN (IF a = I32Min THEN 1 ELSE 0)
    ELSE LET d == Abs(b)
             q == a \div d
             t == IF a < 0 /\ a % d # 0 THEN q + 1 ELSE q
         IN IF b > 0 THEN t ELSE -t
TruncRem(a, b) ==
    IF b = I32Min THEN (IF a = I32Min THEN 0 ELSE a)
    ELSE LET d == Abs(b)
             m == a % d
         IN IF a < 0 /\ m # 0 THEN m - d ELSE m
DivFits(a, b) == b # 0 /\ ~(a = I32Min /\ b = -1)

\* Bitwise operators on two's-complement values.
BitFn(op, x, y) ==
    CASE op = "And" -> IF x = 1 /\ y = 1 THEN 1 ELSE 0
      [] op = "Or"  -> IF x = 1 \/ y = 1 THEN 1 ELSE 0
      [] op = "Xor" -> IF x # y THEN 1 ELSE 0
RECURSIVE Bitwise(_, _, _)
Bitwise(op, a, b) ==
    IF a \in {0, -1} /\ b \in {0, -1}
    THEN -BitFn(op, a % 2, b % 2)
    ELSE BitFn(op, a % 2, b % 2) + 2 * Bitwise(op, a \div 2, b \div 2)
BitNot(a) == -a - 1

\* Shifts.  ShiftFits is the debug-build overflow check on the amount; the
\* release build masks the amount to the low five bits.
ShiftFits(k) == 0 <= k /\ k < I32Bits
ShiftMask(k) == k % I32Bits
WrapShl(v, k) ==
    IF k = I32Bits - 1 THEN (IF v % 2 = 0 THEN 0 ELSE I32Min) ELSE WrapMul(v, 2 ^ k)
ArithShr(v, k) ==
    IF k = I32Bits - 1 THEN (IF v < 0 THEN -1 ELSE 0) ELSE v \div (2 ^ k)

(***************************************************************************)
(* Instructions as vm.rs reads and builds them: an opcode and an           *)
(* Option<i32> operand (<<>> is None, <<v>> is Some(v)).                   *)
(***************************************************************************)
Instruction_new(op) == [opcode |-> op, operand |-> <<>>]
Instruction_with_operand(op, v) == [opcode |-> op, operand |-> <<v>>]

\* The sixteen arms of VM::run that pop one cell.
ArithOps == {"Add", "Sub", "Mul", "Div", "Mod"}
CompareOps == {"Eq", "Ne", "Lt", "Le", "Gt", "Ge"}
BitOps == {"And", "Or", "Xor"}
ShiftOps == {"Shl", "Shr"}
BinaryOps == ArithOps \cup CompareOps \cup BitOps \cup ShiftOps
\* Every opcode VM::run has an arm for; any other opcode reaches `_ => panic!`.
HandledOps == BinaryOps \cup {"Imm", "Push", "Not", "Jmp", "Jz", "Jnz", "Exit", "Printf"}

\* `b as i32`
BoolAsI32_AllOnes(b) == IF b THEN -1 ELSE 0
BoolAsI32(b) == IF b THEN 1 ELSE 0
\* `x as usize` of an i32: a negative value becomes an index of at least
\* 2^63, far beyond any code length; all such indices are kept as UsizeHuge.
UsizeHuge == I32Max
AsUsize(t) == IF t >= 0 THEN t ELSE UsizeHuge

\* The outcome of an arithmetic expression: a value, or the panic the build
\* raises.  The debug profile checks overflow, the release profile wraps.
Value(v) == [panic |-> FALSE, v |-> v]
Panicked == [panic |-> TRUE, v |-> 0]
Checked(prof, fits, wrapped) ==
    IF fits \/ prof = "release" THEN Value(wrapped) ELSE Panicked

\* The right-hand side each binary arm assigns to self.acc, with `val` the
\* popped cell and `a` the accumulator before the step.
ExecBinary(op, val, a, prof) ==
    CASE op = "Add" -> Checked(prof, AddFits(a, val), WrapAdd(a, val))
      [] op = "Sub" -> Checked(prof, SubFits(val, a), WrapSub(val, a))
      [] op = "Mul" -> Checked(prof, MulFits(a, val), WrapMul(a, val))
      [] op = "Div" -> IF DivFits(val, a) THEN Value(TruncDiv(val, a)) ELSE Panicked
      [] op = "Mod" -> IF DivFits(val, a) THEN Value(TruncRem(val, a)) ELSE Panicked
      [] op = "Eq"  -> Value(BoolAsI32(val = a))
      [] op = "Ne"  -> Value(BoolAsI32(val # a))
      [] op = "Lt"  -> Value(BoolAsI32(val < a))
      [] op = "Le"  -> Value(BoolAsI32(val <= a))
      [] op = "Gt"  -> Value(BoolAsI32(val > a))
      [] op = "Ge"  -> Value(BoolAsI32(val >= a))
      [] op = "And" -> Value(Bitwise("And", a, val))
      [] op = "Or"  -> Value(Bitwise("Or", a, val))
      [] op = "Xor" -> Value(Bitwise("Xor", a, val))
      [] op = "Shl" -> Checked(prof, ShiftFits(a), WrapShl(val, ShiftMask(a)))
      [] op = "Shr" -> Checked(prof, ShiftFits(a), ArithShr(val, ShiftMask(a)))

\* The value the arm for `op` computes for self.acc from the popped cell
\* and the accumulator.
AccAfter_Swapped(op, val, a, prof) == ExecBinary(op, a, val, prof)
AccAfter(op, val, a, prof) == ExecBinary(op, val, a, prof)

\* Vec::pop: None on an empty vector, else the last element.
VecPop_OrZero(s) == IF Len(s) = 0 THEN <<0>> ELSE <<s[Len(s)]>>
VecPop(s) == IF Len(s) = 0 THEN <<>> ELSE <<s[Len(s)]>>
VecRest(s) == IF Len(s) = 0 THEN s ELSE SubSeq(s, 1, Len(s) - 1)


(***************************************************************************)
(* The AST of src/src/ast.rs as records tagged with the variant's name.    *)
(* An i64 literal is kept as its two 32-bit words: hi is the signed high   *)
(* word and lo the low word read as an i32, so the literal's value is      *)
(* hi * 2^32 + (lo mod 2^32) and `n as i32` is lo.                         *)
(***************************************************************************)
I64(hi, lo) == [hi |-> hi, lo |-> lo]
I64Of(v) == I64(IF v < 0 THEN -1 ELSE 0, v)
I64AsI32(n) == n.lo
\* usize as i32, for the code lengths compile stores as jump targets
UsizeAsI32(n) == IF n <= I32Max THEN n ELSE (n - I32Max) - I32Max - 2

Num(n) == [tag |-> "Num", n |-> n]
Var(name) == [tag |-> "Var", name |-> name]
Str(t) == [tag |-> "Str", s |-> t]
Unary(op, e) == [tag |-> "Unary", op |-> op, expr |-> e]
Binary(op, l, r) == [tag |-> "Binary", op |-> op, left |-> l, right |-> r]
Conditional(c, t, e) == [tag |-> "Conditional", cond |-> c, then_expr |-> t, else_expr |-> e]
Call(f, args) == [tag |-> "Call", callee |-> f, args |-> args]
Cast(ty, e) == [tag |-> "Cast", ty |-> ty, expr |-> e]
SizeOf(ty) == [tag |-> "SizeOf", ty |-> ty]
Index(a, i) == [tag |-> "Index", array |-> a, index |-> i]

ExprStmt(e) == [tag |-> "Expr", expr |-> e]
Return(opt) == [tag |-> "Return", expr |-> opt]
BlockStmt(stmts) == [tag |-> "Block", stmts |-> stmts]
If(c, t, opt) == [tag |-> "If", cond |-> c, then_branch |-> t, else_branch |-> opt]
While(c, b) == [tag |-> "While", cond |-> c, body |-> b]
Empty == [tag |-> "Empty"]

Function(name, stmts) == [tag |-> "Function", name |-> name, body |-> stmts]
Global(name) == [tag |-> "Global", name |-> name]
Program(items) == [items |-> items]

\* BinOp -> OpCode, the inner match of compile_expr's Binary arm; every other
\* BinOp (Assign, LogAnd, LogOr) reaches unimplemented!.
BinOpCode(op) ==
    CASE op = "Add" -> "Add" [] op = "Sub" -> "Sub" [] op = "Mul" -> "Mul"
      [] op = "Div" -> "Div" [] op = "Mod" -> "Mod"
      [] op = "Eq" -> "Eq" [] op = "Ne" -> "Ne" [] op = "Lt" -> "Lt"
      [] op = "Le" -> "Le" [] op = "Gt" -> "Gt" [] op = "Ge" -> "Ge"
      [] op = "BitAnd" -> "And" [] op = "BitOr" -> "Or" [] op = "Xor" -> "Xor"
      [] op = "Shl" -> "Shl" [] op = "Shr" -> "Shr"
      [] OTHER -> "unimplemented"

(***************************************************************************)
(* The code generator.  The Vec<Instruction> under construction is the     *)
(* record c: c.code is the vector, and c.panic is <<>> until a panic!,     *)
(* after which nothing more is emitted.                                    *)
(***************************************************************************)
NewCode == [code |-> <<>>, panic |-> <<>>]
Emit(c, ins) == IF c.panic # <<>> THEN c ELSE [c EXCEPT !.code = Append(@, ins)]
\* code[pos].operand = Some(code.len() as i32)
PatchHere_Next(c, pos) ==
    IF c.panic # <<>> THEN c
    ELSE [c EXCEPT !.code[pos + 1].operand = <<UsizeAsI32(pos + 1)>>]
PatchHere(c, pos) ==
    IF c.panic # <<>> THEN c
    ELSE [c EXCEPT !.code[pos + 1].operand = <<UsizeAsI32(Len(c.code))>>]
Abort(c, msg) == IF c.panic # <<>> THEN c ELSE [c EXCEPT !.panic = <<msg>>]

RECURSIVE compile_expr(_, _)
RECURSIVE compile_args_rev(_, _, _)
RECURSIVE compile_stmt(_, _)
RECURSIVE compile_stmts(_, _, _)

compile_unary_op(op, c) ==
    CASE op = "Neg" -> Emit(Emit(c, Instruction_with_operand("Imm", 0)), Instruction_new("Sub"))
      [] op = "Not" -> Emit(c, Instruction_new("Not"))
      [] OTHER -> Abort(c, "Unary operator")

compile_binary_op(op, c) ==
    IF BinOpCode(op) = "unimplemented" THEN Abort(c, "Binary operator")
    ELSE Emit(c, Instruction_new(BinOpCode(op)))

\* The Binary arm: left, Push, right, then the operator's instruction.
compile_binary(e, c) ==
    compile_binary_op(e.op,
        compile_expr(e.right,
            Emit(compile_expr(e.left, c), Instruction_new("Push"))))

compile_conditional(e, c) ==
    LET c1 == Emit(compile_expr(e.cond, c), Instruction_with_operand("Jz", 0))
        jz_pos == Len(c1.code) - 1
        c2 == Emit(compile_expr(e.then_expr, c1), Instruction_with_operand("Jmp", 0))
        jmp_pos == Len(c2.code) - 1
        c3 == compile_expr(e.else_expr, PatchHere(c2, jz_pos))
    IN PatchHere(c3, jmp_pos)

compile_call(e, c) ==
    IF e.callee.tag = "Var"
    THEN IF e.callee.name = "printf"
         THEN Emit(compile_args_rev(e.args, Len(e.args), c),
                   Instruction_with_operand("Printf", UsizeAsI32(Len(e.args))))
         ELSE Abort(c, "Only printf supported for now")
    ELSE Abort(c, "Unsupported callee")

compile_expr(e, c) ==
    IF c.panic # <<>> THEN c
    ELSE CASE e.tag = "Num" -> Emit(c, Instruction_with_operand("Imm", I64AsI32(e.n)))
           [] e.tag = "Unary" -> compile_unary_op(e.op, compile_expr(e.expr, c))
           [] e.tag = "Binary" -> compile_binary(e, c)
           [] e.tag = "Conditional" -> compile_conditional(e, c)
           [] e.tag = "Var" -> Abort(c, "Variable lookup not yet implemented")
           [] e.tag = "Call" -> compile_call(e, c)
           [] OTHER -> Abort(c, "Expression")

\* for arg in args.iter().rev() { compile_expr(arg); push Push }
compile_args_rev(args, k, c) ==
    IF k = 0 THEN c
    ELSE compile_args_rev(args, k - 1,
             Emit(compile_expr(args[k], c), Instruction_new("Push")))

compile_if(s, c) ==
    LET c1 == Emit(compile_expr(s.cond, c), Instruction_with_operand("Jz", 0))
        jz_pos == Len(c1.code) - 1
        c2 == compile_stmt(s.then_branch, c1)
    IN IF s.else_branch # <<>>
       THEN LET c3 == Emit(c2, Instruction_with_operand("Jmp", 0))
                jmp_pos == Len(c3.code) - 1
                c4 == compile_stmt(s.else_branch[1], PatchHere(c3, jz_pos))
            IN PatchHere(c4, jmp_pos)
       ELSE PatchHere(c2, jz_pos)

compile_while(s, c) ==
    LET loop_start == UsizeAsI32(Len(c.code))
        c1 == Emit(compile_expr(s.cond, c), Instruction_with_operand("Jz", 0))
        jz_pos == Len(c1.code) - 1
        c2 == Emit(compile_stmt(s.body, c1), Instruction_with_operand("Jmp", loop_start))
    IN PatchHere(c2, jz_pos)

compile_stmt(s, c) ==
    IF c.panic # <<>> THEN c
    ELSE CASE s.tag = "Expr" -> compile_expr(s.expr, c)
           [] s.tag = "Return" ->
                IF s.expr # <<>>
                THEN Emit(compile_expr(s.expr[1], c), Instruction_new("Exit"))
                ELSE Emit(c, Instruction_new("Exit"))
           [] s.tag = "Block" -> compile_stmts(s.stmts, 1, c)
           [] s.tag = "If" -> compile_if(s, c)
           [] s.tag = "While" -> compile_while(s, c)
           [] s.tag = "Empty" -> c

\* compile_block: for stmt in &block.stmts { compile_stmt(stmt, code) }
compile_stmts(stmts, k, c) ==
    IF k > Len(stmts) THEN c
    ELSE compile_stmts(stmts, k + 1, compile_stmt(stmts[k], c))
compile_block(stmts, c) == compile_stmts(stmts, 1, c)

\* compile: every item that is a function named main contributes its body
\* followed by Exit; every other item contributes nothing.
RECURSIVE compile_items(_, _, _)
compile_items(items, k, c) ==
    IF k > Len(items) THEN c
    ELSE compile_items(items, k + 1,
             IF items[k].tag = "Function" /\ items[k].name = "main"
             THEN Emit(compile_block(items[k].body, c), Instruction_new("Exit"))
             ELSE c)
compile(program) == compile_items(program.items, 1, NewCode)

(***************************************************************************)
(* The lexer of src/src/lexer.rs.  A character is its code point (a char   *)
(* is a Unicode scalar value) and the input is the sequence of the         *)
(* characters of the text; Lexer.iter is the number of characters the      *)
(* iterator has yielded, so the next character is input[iter + 1].  The    *)
(* slices the lexer takes cover ASCII characters only, where byte offsets  *)
(* and character counts advance together.                                  *)
(***************************************************************************)
\* The ASCII characters 32 .. 95 and 97 .. 126, in order
Printable ==
    << " ", "!", "\"", "#", "$", "%", "&", "'", "(", ")", "*", "+", ",", "-", ".", "/",
       "0", "1", "2", "3", "4", "5", "6", "7", "8", "9", ":", ";", "<", "=", ">", "?",
       "@", "A", "B", "C", "D", "E", "F", "G", "H", "I", "J", "K", "L", "M", "N", "O",
       "P", "Q", "R", "S", "T", "U", "V", "W", "X", "Y", "Z", "[", "\\", "]", "^", "_" >>
LowerPrintable ==
    << "a", "b", "c", "d", "e", "f", "g", "h", "i", "j", "k", "l", "m", "n", "o",
       "p", "q", "r", "s", "t", "u", "v", "w", "x", "y", "z", "{", "|", "}", "~" >>
FirstPrintable == 32
FirstLower == 97
\* The code point of an ASCII character, the character being written as a
\* one-character string
Code ==
    [c \in {"\t", "\n", "\f", "\r"} \cup {Printable[i] : i \in DOMAIN Printable}
            \cup {LowerPrintable[i] : i \in DOMAIN LowerPrintable} |->
        CASE c = "\t" -> 9
          [] c = "\n" -> 10
          [] c = "\f" -> 12
          [] c = "\r" -> 13
          [] \E i \in DOMAIN LowerPrintable : LowerPrintable[i] = c ->
                (CHOOSE i \in DOMAIN LowerPrintable : LowerPrintable[i] = c) + FirstLower - 1
          [] OTHER -> (CHOOSE i \in DOMAIN Printable : Printable[i] = c) + FirstPrintable - 1]
\* A text written character by character, as the sequence of its characters
Text(chars) == [i \in 1 .. Len(chars) |-> Code[chars[i]]]

\* char::is_ascii_digit, is_ascii_hexdigit, is_ascii_alphabetic,
\* is_ascii_alphanumeric, and the range 0 to 7
Digits == Code["0"] .. Code["9"]
OctDigits == Code["0"] .. Code["7"]
HexDigits == Digits \cup (Code["A"] .. Code["F"]) \cup (Code["a"] .. Code["f"])
Alphabetic == (Code["A"] .. Code["Z"]) \cup (Code["a"] .. Code["z"])
Alphanumeric == Alphabetic \cup Digits
\* char::is_whitespace, the property White_Space: U+0009 to U+000D, U+0020,
\* U+0085, U+00A0, U+1680, U+2000 to U+200A, U+2028, U+2029, U+202F, U+205F
\* and U+3000
Whitespace ==
    (9 .. 13) \cup {32, 133, 160, 5760} \cup (8192 .. 8202) \cup {8232, 8233, 8239, 8287, 12288}

\* char::to_digit(radix)
ToDigit(c, radix) ==
    LET v == IF c \in Digits THEN c - Code["0"]
             ELSE IF c \in Code["A"] .. Code["F"] THEN c - Code["A"] + 10
             ELSE IF c \in Code["a"] .. Code["f"] THEN c - Code["a"] + 10
             ELSE radix
    IN IF v < radix THEN <<v>> ELSE << >>

\* i64::from_str_radix on a string that starts with neither + nor -: the
\* running value is kept as four 16-bit limbs, least significant first, and
\* checked_mul / checked_add fail once it passes i64::MAX.
RadixStep(limbs, radix, d) ==
    LET t0 == limbs[1] * radix + d
        t1 == limbs[2] * radix + (t0 \div Base16)
        t2 == limbs[3] * radix + (t1 \div Base16)
        t3 == limbs[4] * radix + (t2 \div Base16)
    IN IF t3 >= Half16 THEN << >>
       ELSE << <<t0 % Base16, t1 % Base16, t2 % Base16, t3>> >>
RECURSIVE from_str_radix_from(_, _, _, _)
from_str_radix_from(src, k, radix, limbs) ==
    IF k > Len(src)
    THEN [ok |-> TRUE, val |-> I64(limbs[4] * Base16 + limbs[3], FromHalves(limbs[2], limbs[1]))]
    ELSE IF ToDigit(src[k], radix) = << >>
         THEN [ok |-> FALSE, msg |-> "invalid digit found in string"]
         ELSE LET n == RadixStep(limbs, radix, ToDigit(src[k], radix)[1])
              IN IF n = << >>
                 THEN [ok |-> FALSE, msg |-> "number too large to fit in target type"]
                 ELSE from_str_radix_from(src, k + 1, radix, n[1])
from_str_radix(src, radix) ==
    IF src = << >> THEN [ok |-> FALSE, msg |-> "cannot parse integer from empty string"]
    ELSE from_str_radix_from(src, 1, radix, <<0, 0, 0, 0>>)

\* Token and Result<Token, LexError>
Token_Num(v) == [tag |-> "Num", val |-> v]
Token_Ident(name) == [tag |-> "Ident", name |-> name]
Token_Str(text) == [tag |-> "Str", text |-> text]
Token_Char(c) == [tag |-> "Char", c |-> c]
Token(tag) == [tag |-> tag]
Ok(tok) == [ok |-> TRUE, tok |-> tok]
Err(msg) == [ok |-> FALSE, msg |-> msg]

\* Lexer::new
Lexer_new(src) == [input |-> src, iter |-> 0]

\* self.iter.peek() at position p: the next character, if any
Peek(src, p) == IF p < Len(src) THEN <<src[p + 1]>> ELSE << >>
\* self.iter.next(): one character is yielded
Advance_Stay(p) == p
Advance(p) == p + 1

\* `while let Some(c) = peek { next; if c == '\n' { break } }`
RECURSIVE SkipLine(_, _)
SkipLine(src, p) ==
    IF Peek(src, p) = << >> THEN p
    ELSE IF src[p + 1] = Code["\n"] THEN p + 1
    ELSE SkipLine(src, p + 1)

RECURSIVE skip_whitespace_and_comments(_, _)
skip_whitespace_and_comments(src, p) ==
    IF Peek(src, p) = << >> THEN p
    ELSE LET c == src[p + 1]
         IN IF c \in Whitespace THEN skip_whitespace_and_comments(src, p + 1)
            ELSE IF c = Code["/"]
                 THEN IF Peek(src, p + 1) = Text(<<"/">>)
                      THEN skip_whitespace_and_comments(src, SkipLine(src, p + 2))
                      ELSE p
            ELSE IF c = Code["#"] THEN skip_whitespace_and_comments(src, SkipLine(src, p + 1))
            ELSE p

\* `while let Some(c) = peek { if class(c) { next } else { break } }`
RECURSIVE ScanWhile(_, _, _)
ScanWhile(src, p, class) ==
    IF Peek(src, p) # << >> /\ src[p + 1] \in class THEN ScanWhile(src, p + 1, class)
    ELSE p

\* &self.input[start..end], as the characters start+1 .. end
NumSlice_NoPrefix(src, start, end, base) ==
    SubSeq(src, (IF base = 16 THEN start + 2 ELSE start) + 1, end)
NumSlice(src, start, end, base) == SubSeq(src, start + 1, end)

\* The numeric-literal arm: idx is the position of the first digit ch and p
\* the iterator's position after it.  The result is the position the
\* iterator reaches and the Result.
NumBase(ch, next) ==
    IF ch = Code["0"] /\ next # << >> /\ next[1] \in {Code["x"], Code["X"]} THEN 16
    ELSE IF ch = Code["0"] /\ next # << >> /\ next[1] \in OctDigits THEN 8
    ELSE 10
NumEnd(src, p, ch, base) ==
    IF ch = Code["0"]
    THEN (IF base = 16 THEN ScanWhile(src, p + 1, HexDigits)
          ELSE IF base = 8 THEN ScanWhile(src, p, OctDigits)
          ELSE p)
    ELSE ScanWhile(src, p, Digits)
LexNumber(src, idx, p, ch) ==
    LET base == NumBase(ch, Peek(src, p))
    IN CHOOSE out \in {[iter |-> end,
                        res |-> (CHOOSE res \in {IF val.ok THEN Ok(Token_Num(val.val)) ELSE Err(val.msg)
                                                 : val \in {from_str_radix(NumSlice(src, idx, end, base), base)}}
                                 : TRUE)]
                       : end \in {NumEnd(src, p, ch, base)}} : TRUE

Keyword(ident) ==
    CASE ident = Text(<<"v", "o", "i", "d">>) -> Token("KwVoid")
      [] ident = Text(<<"c", "h", "a", "r">>) -> Token("KwChar")
      [] ident = Text(<<"e", "l", "s", "e">>) -> Token("KwElse")
      [] ident = Text(<<"e", "n", "u", "m">>) -> Token("KwEnum")
      [] ident = Text(<<"i", "f">>) -> Token("KwIf")
      [] ident = Text(<<"i", "n", "t">>) -> Token("KwInt")
      [] ident = Text(<<"r", "e", "t", "u", "r", "n">>) -> Token("KwReturn")
      [] ident = Text(<<"s", "i", "z", "e", "o", "f">>) -> Token("KwSizeof")
      [] ident = Text(<<"w", "h", "i", "l", "e">>) -> Token("KwWhile")
      [] OTHER -> Token_Ident(ident)
LexIdent(src, idx, p) ==
    LET end == ScanWhile(src, p, Alphanumeric \cup {Code["_"]})
    IN [iter |-> end, res |-> Ok(Keyword(SubSeq(src, idx + 1, end)))]

\* The escape rule of string and character literals
Unescape_Raw(esc) == esc
Unescape(esc) == IF esc = Code["n"] THEN Code["\n"] ELSE esc

\* The string-literal loop from position p with text s accumulated
RECURSIVE LexString(_, _, _)
LexString(src, p, s) ==
    IF Peek(src, p) = << >> THEN [iter |-> p, res |-> Ok(Token_Str(s))]
    ELSE LET c == src[p + 1]
         IN IF c = Code["\""] THEN [iter |-> p + 1, res |-> Ok(Token_Str(s))]
            ELSE IF c = Code["\\"]
                 THEN IF Peek(src, p + 1) # << >>
                      THEN LexString(src, p + 2, Append(s, Unescape(src[p + 2])))
                      ELSE LexString(src, p + 1, s)
            ELSE LexString(src, p + 1, Append(s, c))

\* `return Ok(Token::Num(c as i64))`
CharToken_Char(c) == Token_Char(c)
CharToken(c) == Token_Num(I64Of(c))
\* The character-literal arm from position p, just after the opening quote
LexChar(src, p) ==
    LET first == Peek(src, p)
        second == Peek(src, p + 1)
        escaped == first = Text(<<"\\">>)
        after == IF escaped THEN p + 2 ELSE p + 1
        c == IF escaped THEN Unescape(second[1]) ELSE first[1]
    IN IF first = << >> THEN [iter |-> p, res |-> Err("Unterminated char literal")]
       ELSE IF escaped /\ second = << >>
            THEN [iter |-> p + 1, res |-> Err("Unterminated char literal")]
       ELSE [iter |-> IF Peek(src, after) = Text(<<"'">>) THEN after + 1 ELSE after,
             res |-> Ok(CharToken(c))]

TwoCharToken(ch, next) ==
    CASE ch = Code["="] /\ next = Code["="] -> <<Token("EqEq")>>
      [] ch = Code["!"] /\ next = Code["="] -> <<Token("Ne")>>
      [] ch = Code["<"] /\ next = Code["="] -> <<Token("Le")>>
      [] ch = Code[">"] /\ next = Code["="] -> <<Token("Ge")>>
      [] ch = Code["&"] /\ next = Code["&"] -> <<Token("AndAnd")>>
      [] ch = Code["|"] /\ next = Code["|"] -> <<Token("OrOr")>>
      [] ch = Code["<"] /\ next = Code["<"] -> <<Token("Shl")>>
      [] ch = Code[">"] /\ next = Code[">"] -> <<Token("Shr")>>
      [] ch = Code["+"] /\ next = Code["+"] -> <<Token("Inc")>>
      [] ch = Code["-"] /\ next = Code["-"] -> <<Token("Dec")>>
      [] OTHER -> << >>
OneCharToken(ch) ==
    CASE ch = Code["+"] -> Ok(Token("Plus")) [] ch = Code["-"] -> Ok(Token("Minus"))
      [] ch = Code["*"] -> Ok(Token("Star")) [] ch = Code["/"] -> Ok(Token("Slash"))
      [] ch = Code["%"] -> Ok(Token("Percent")) [] ch = Code["="] -> Ok(Token("Assign"))
      [] ch = Code["!"] -> Ok(Token("Not")) [] ch = Code["<"] -> Ok(Token("Lt"))
      [] ch = Code[">"] -> Ok(Token("Gt")) [] ch = Code["&"] -> Ok(Token("And"))
      [] ch = Code["|"] -> Ok(Token("Or")) [] ch = Code["^"] -> Ok(Token("Xor"))
      [] ch = Code["~"] -> Ok(Token("Tilde")) [] ch = Code["?"] -> Ok(Token("Question"))
      [] ch = Code[":"] -> Ok(Token("Colon")) [] ch = Code[";"] -> Ok(Token("Semicolon"))
      [] ch = Code[","] -> Ok(Token("Comma")) [] ch = Code["("] -> Ok(Token("LParen"))
      [] ch = Code[")"] -> Ok(Token("RParen")) [] ch = Code["{"] -> Ok(Token("LBrace"))
      [] ch = Code["}"] -> Ok(Token("RBrace")) [] ch = Code["["] -> Ok(Token("LBracket"))
      [] ch = Code["]"] -> Ok(Token("RBracket"))
      [] OTHER -> Err("Unexpected character")
LexOperator(src, p, ch) ==
    LET next == Peek(src, p)
    IN IF next # << >> /\ TwoCharToken(ch, next[1]) # << >>
       THEN [iter |-> p + 1, res |-> Ok(TwoCharToken(ch, next[1])[1])]
       ELSE [iter |-> p, res |-> OneCharToken(ch)]

\* The arm of next_token's match for the character ch yielded at idx
LexToken(src, idx, p, ch) ==
    IF ch \in Digits THEN LexNumber(src, idx, p, ch)
    ELSE IF ch \in Alphabetic \cup {Code["_"]} THEN LexIdent(src, idx, p)
    ELSE IF ch = Code["\""] THEN LexString(src, p, << >>)
    ELSE IF ch = Code["'"] THEN LexChar(src, p)
    ELSE LexOperator(src, p, ch)

\* A result that the code binds to a name and then looks at several times (an
\* index, an end position, what a call returned) is bound here as the one
\* element of a singleton: CHOOSE out \in {body : x \in {e}} : TRUE is body
\* with x the value of e.
\* Lexer::next_token: the lexer after the call, the Result it returns, and
\* idx, the position of the character the token starts at.
next_token(lx) ==
    CHOOSE out \in {
        IF Peek(lx.input, idx) = << >>
        THEN [lexer |-> [lx EXCEPT !.iter = idx], res |-> Ok(Token("Eof")), idx |-> idx]
        ELSE CHOOSE tok \in {[lexer |-> [lx EXCEPT !.iter = r.iter], res |-> r.res, idx |-> idx]
                             : r \in {LexToken(lx.input, idx, Advance(idx), lx.input[idx + 1])}} : TRUE
        : idx \in {skip_whitespace_and_comments(lx.input, lx.iter)}} : TRUE

(***************************************************************************)
(* The parser of src/src/parser.rs.  A Parser is the record of its lexer   *)
(* `lex` and its lookahead token `cur`.  Every parse function returns      *)
(* either the parser after it and the value parsed, or the error; names    *)
(* are the character sequences the lexer yields.                           *)
(***************************************************************************)
Parsed(p, v) == [ok |-> TRUE, p |-> p, v |-> v]
Failed(p, e) == [ok |-> FALSE, p |-> p, err |-> e]
\* The String errors: format!("expected {:?}, got {:?}", ..), the lexer's
\* message, and the fixed texts.
ParseError(kind, expected, got) == [kind |-> kind, expected |-> expected, got |-> got]
NoToken == [tag |-> "none"]

Type(tag) == [tag |-> tag]
Ptr(ty) == [tag |-> "Ptr", to |-> ty]
FuncDef(ret, name, params, locals, stmts) ==
    [tag |-> "Function", ret |-> ret, name |-> name, params |-> params,
     locals |-> locals, body |-> stmts]
GlobalDecl(name, ty) == [tag |-> "Global", name |-> name, ty |-> ty]
EnumDecl(variants) == [tag |-> "Enum", variants |-> variants]

\* Parser::bump
bump(p) ==
    CHOOSE out \in {IF r.res.ok THEN Parsed([lex |-> r.lexer, cur |-> r.res.tok], << >>)
                    ELSE Failed([p EXCEPT !.lex = r.lexer], ParseError("lex", r.res.msg, NoToken))
                    : r \in {next_token(p.lex)}} : TRUE
\* Parser::new
Parser_new(src) == bump([lex |-> Lexer_new(src), cur |-> NoToken])

\* Parser::eat
eat(p, tok) ==
    IF p.cur = tok
    THEN (CHOOSE out \in {IF b.ok THEN Parsed(b.p, TRUE) ELSE b : b \in {bump(p)}} : TRUE)
    ELSE Parsed(p, FALSE)
\* Parser::expect
expect(p, tok) ==
    IF p.cur = tok THEN bump(p)
    ELSE Failed(p, ParseError("expected", tok, p.cur))
\* Parser::expect_ident: mem::replace leaves Eof in cur before cur is
\* looked at, so the error is formatted from the replaced cur.
expect_ident(p) ==
    LET q == [p EXCEPT !.cur = Token("Eof")]
    IN IF p.cur.tag = "Ident"
       THEN (CHOOSE out \in {IF b.ok THEN Parsed(b.p, p.cur.name) ELSE b : b \in {bump(q)}} : TRUE)
       ELSE Failed(q, ParseError("expected", Token("identifier"), q.cur))

\* Parser::parse_type
RECURSIVE parse_type_stars(_, _)
parse_type_stars(p, ty) ==
    CHOOSE out \in {IF ~e.ok THEN e ELSE
        IF e.v THEN parse_type_stars(e.p, Ptr(ty)) ELSE Parsed(p, ty)
        : e \in {eat(p, Token("Star"))}} : TRUE
parse_type(p) ==
    IF p.cur.tag \in {"KwVoid", "KwInt", "KwChar"}
    THEN CHOOSE out \in {IF b.ok
                          THEN parse_type_stars(b.p, Type(CASE p.cur.tag = "KwVoid" -> "Void"
                                                            [] p.cur.tag = "KwInt" -> "Int"
                                                            [] OTHER -> "Char"))
                          ELSE b
                          : b \in {bump(p)}} : TRUE
    ELSE Failed(p, ParseError("expected type", Token("type"), p.cur))

\* The eight left-associative binary levels, loosest first: parse_bitwise_or,
\* parse_bitwise_xor, parse_bitwise_and, parse_equality, parse_relational,
\* parse_shift, parse_add_sub, parse_mul_div_mod; and the operator each
\* level's tokens stand for.
LevelCount == 8
LevelOp(lvl, tag) ==
    CASE lvl = 1 /\ tag = "Or" -> <<"BitOr">>
      [] lvl = 2 /\ tag = "Xor" -> <<"Xor">>
      [] lvl = 3 /\ tag = "And" -> <<"BitAnd">>
      [] lvl = 4 /\ tag = "EqEq" -> <<"Eq">>
      [] lvl = 4 /\ tag = "Ne" -> <<"Ne">>
      [] lvl = 5 /\ tag = "Lt" -> <<"Lt">>
      [] lvl = 5 /\ tag = "Gt" -> <<"Gt">>
      [] lvl = 5 /\ tag = "Le" -> <<"Le">>
      [] lvl = 5 /\ tag = "Ge" -> <<"Ge">>
      [] lvl = 6 /\ tag = "Shl" -> <<"Shl">>
      [] lvl = 6 /\ tag = "Shr" -> <<"Shr">>
      [] lvl = 7 /\ tag = "Plus" -> <<"Add">>
      [] lvl = 7 /\ tag = "Minus" -> <<"Sub">>
      [] lvl = 8 /\ tag = "Star" -> <<"Mul">>
      [] lvl = 8 /\ tag = "Slash" -> <<"Div">>
      [] lvl = 8 /\ tag = "Percent" -> <<"Mod">>
      [] OTHER -> << >>
\* The prefix operators of parse_unary
PrefixOp(tag) ==
    CASE tag = "Inc" -> <<"PreInc">> [] tag = "Dec" -> <<"PreDec">>
      [] tag = "Plus" -> <<"Plus">> [] tag = "Minus" -> <<"Neg">>
      [] tag = "Not" -> <<"Not">> [] tag = "Tilde" -> <<"BitNot">>
      [] tag = "Star" -> <<"Deref">> [] tag = "And" -> <<"Addr">>
      [] OTHER -> << >>

RECURSIVE parse_assignment(_)
RECURSIVE parse_conditional(_)
RECURSIVE parse_logical_and(_)
RECURSIVE parse_logical_and_loop(_, _)
RECURSIVE parse_logical_or(_)
RECURSIVE parse_logical_or_loop(_, _)
RECURSIVE parse_binary_level(_, _)
RECURSIVE parse_binary_loop(_, _, _, _)
RECURSIVE parse_unary(_)
RECURSIVE parse_postfix(_)
RECURSIVE parse_postfix_loop(_, _)
RECURSIVE parse_args(_, _)
RECURSIVE parse_stmt(_)
RECURSIVE parse_stmts(_, _)

\* Parser::parse_primary
parse_primary(p) ==
    CASE p.cur.tag = "Num" ->
            (CHOOSE out \in {IF b.ok THEN Parsed(b.p, Num(p.cur.val)) ELSE b : b \in {bump(p)}} : TRUE)
      [] p.cur.tag = "Str" ->
            (CHOOSE out \in {IF b.ok THEN Parsed(b.p, Str(p.cur.text)) ELSE b : b \in {bump(p)}} : TRUE)
      [] p.cur.tag = "Ident" ->
            (CHOOSE out \in {IF n.ok THEN Parsed(n.p, Var(n.v)) ELSE n : n \in {expect_ident(p)}} : TRUE)
      [] OTHER -> Failed(p, ParseError("unexpected primary", Token("primary"), p.cur))

\* The argument loop of a call: parse_assignment, then a comma or the end
parse_args(p, args) ==
    CHOOSE out \in {IF ~a.ok THEN a ELSE
        CHOOSE out \in {IF ~e.ok THEN e ELSE
            IF e.v THEN parse_args(e.p, Append(args, a.v)) ELSE Parsed(e.p, Append(args, a.v))
            : e \in {eat(a.p, Token("Comma"))}} : TRUE
        : a \in {parse_assignment(p)}} : TRUE

\* Parser::parse_postfix
parse_postfix_loop(p, expr) ==
    CASE p.cur.tag = "Inc" ->
            CHOOSE out \in {IF ~b.ok THEN b ELSE
                parse_postfix_loop(b.p, Unary("PostInc", expr))
                : b \in {bump(p)}} : TRUE
      [] p.cur.tag = "Dec" ->
            CHOOSE out \in {IF ~b.ok THEN b ELSE
                parse_postfix_loop(b.p, Unary("PostDec", expr))
                : b \in {bump(p)}} : TRUE
      [] p.cur.tag = "LParen" ->
            CHOOSE out \in {IF ~b.ok THEN b ELSE
                CHOOSE out \in {IF ~a.ok THEN a ELSE
                    CHOOSE out \in {IF ~x.ok THEN x ELSE
                        parse_postfix_loop(x.p, Call(expr, a.v))
                        : x \in {expect(a.p, Token("RParen"))}} : TRUE
                    : a \in {IF b.p.cur # Token("RParen") THEN parse_args(b.p, << >>) ELSE Parsed(b.p, << >>)}} : TRUE
                : b \in {bump(p)}} : TRUE
      [] p.cur.tag = "LBracket" ->
            CHOOSE out \in {IF ~b.ok THEN b ELSE
                CHOOSE out \in {IF ~i.ok THEN i ELSE
                    CHOOSE out \in {IF ~x.ok THEN x ELSE
                        parse_postfix_loop(x.p, Index(expr, i.v))
                        : x \in {expect(i.p, Token("RBracket"))}} : TRUE
                    : i \in {parse_assignment(b.p)}} : TRUE
                : b \in {bump(p)}} : TRUE
      [] OTHER -> Parsed(p, expr)
parse_postfix(p) ==
    CHOOSE out \in {IF ~e.ok THEN e ELSE
        parse_postfix_loop(e.p, e.v)
        : e \in {parse_primary(p)}} : TRUE

\* Parser::parse_unary
parse_unary(p) ==
    IF PrefixOp(p.cur.tag) # << >>
    THEN
         CHOOSE out \in {IF ~b.ok THEN b ELSE
             CHOOSE out \in {IF ~e.ok THEN e ELSE
                 Parsed(e.p, Unary(PrefixOp(p.cur.tag)[1], e.v))
                 : e \in {parse_unary(b.p)}} : TRUE
             : b \in {bump(p)}} : TRUE
    ELSE IF p.cur.tag = "KwSizeof"
    THEN
         CHOOSE out \in {IF ~b.ok THEN b ELSE
             CHOOSE out \in {IF ~l.ok THEN l ELSE
                 CHOOSE out \in {IF ~t.ok THEN t ELSE
                     CHOOSE out \in {IF ~r.ok THEN r ELSE
                         Parsed(r.p, SizeOf(t.v))
                         : r \in {expect(t.p, Token("RParen"))}} : TRUE
                     : t \in {parse_type(l.p)}} : TRUE
                 : l \in {expect(b.p, Token("LParen"))}} : TRUE
             : b \in {bump(p)}} : TRUE
    ELSE IF p.cur.tag = "LParen"
    THEN
         CHOOSE out \in {IF ~b.ok THEN b ELSE
             IF b.p.cur.tag \in {"KwVoid", "KwInt", "KwChar"}
              THEN
                   CHOOSE out \in {IF ~t.ok THEN t ELSE
                       CHOOSE out \in {IF ~r.ok THEN r ELSE
                           CHOOSE out \in {IF ~e.ok THEN e ELSE
                               Parsed(e.p, Cast(t.v, e.v))
                               : e \in {parse_unary(r.p)}} : TRUE
                           : r \in {expect(t.p, Token("RParen"))}} : TRUE
                       : t \in {parse_type(b.p)}} : TRUE
              ELSE
                   CHOOSE out \in {IF ~e.ok THEN e ELSE
                       CHOOSE out \in {IF ~r.ok THEN r ELSE
                           Parsed(r.p, e.v)
                           : r \in {expect(e.p, Token("RParen"))}} : TRUE
                       : e \in {parse_assignment(b.p)}} : TRUE
             : b \in {bump(p)}} : TRUE
    ELSE parse_postfix(p)

\* parse_bitwise_or .. parse_mul_div_mod.  Each parses an operand of the next
\* level and then, `while self.eat(op)`, a right operand of the next level,
\* folding to the left; the operand of the tightest level is parse_unary.  The
\* first operand of every level is therefore the same unary expression: it is
\* parsed once and handed from the tightest level to the loosest, level cur
\* running its loop on expr, what the tighter levels have made of it.
parse_binary_loop(p, cur, lvl, expr) ==
    CASE LevelOp(cur, p.cur.tag) # << >> ->
            CHOOSE out \in {IF ~b.ok THEN b ELSE
                CHOOSE out \in {IF ~r.ok THEN r ELSE
                    parse_binary_loop(r.p, cur, lvl, Binary(LevelOp(cur, p.cur.tag)[1], expr, r.v))
                    : r \in {parse_binary_level(b.p, cur + 1)}} : TRUE
                : b \in {bump(p)}} : TRUE
      [] LevelOp(cur, p.cur.tag) = << >> /\ cur = lvl -> Parsed(p, expr)
      [] OTHER -> parse_binary_loop(p, cur - 1, lvl, expr)
parse_binary_level(p, lvl) ==
    CHOOSE out \in {IF ~u.ok THEN u ELSE
        IF lvl > LevelCount THEN u ELSE parse_binary_loop(u.p, LevelCount, lvl, u.v)
        : u \in {parse_unary(p)}} : TRUE
parse_bitwise_or(p) == parse_binary_level(p, 1)

\* Parser::parse_conditional
parse_conditional(p) ==
    CHOOSE out \in {IF ~c.ok THEN c ELSE
        CHOOSE out \in {IF ~q.ok THEN q ELSE
            IF ~q.v THEN c ELSE
            CHOOSE out \in {IF ~t.ok THEN t ELSE
                CHOOSE out \in {IF ~x.ok THEN x ELSE
                    CHOOSE out \in {IF ~e.ok THEN e ELSE
                        Parsed(e.p, Conditional(c.v, t.v, e.v))
                        : e \in {parse_assignment(x.p)}} : TRUE
                    : x \in {expect(t.p, Token("Colon"))}} : TRUE
                : t \in {parse_assignment(q.p)}} : TRUE
            : q \in {eat(c.p, Token("Question"))}} : TRUE
        : c \in {parse_bitwise_or(p)}} : TRUE

\* Parser::parse_logical_and: a conditional and, while && follows, the next;
\* left is << >> at the first operand and <<expr>> after an operator.
parse_logical_and_loop(p, left) ==
    CHOOSE out \in {IF ~r.ok THEN r ELSE
        LET expr == IF left = << >> THEN r.v ELSE Binary("LogAnd", left[1], r.v) IN
        CHOOSE out \in {IF ~a.ok THEN a ELSE
            IF a.v THEN parse_logical_and_loop(a.p, <<expr>>) ELSE Parsed(a.p, expr)
            : a \in {eat(r.p, Token("AndAnd"))}} : TRUE
        : r \in {parse_conditional(p)}} : TRUE
parse_logical_and(p) == parse_logical_and_loop(p, << >>)

\* Parser::parse_logical_or, in the same way
parse_logical_or_loop(p, left) ==
    CHOOSE out \in {IF ~r.ok THEN r ELSE
        LET expr == IF left = << >> THEN r.v ELSE Binary("LogOr", left[1], r.v) IN
        CHOOSE out \in {IF ~o.ok THEN o ELSE
            IF o.v THEN parse_logical_or_loop(o.p, <<expr>>) ELSE Parsed(o.p, expr)
            : o \in {eat(r.p, Token("OrOr"))}} : TRUE
        : r \in {parse_logical_and(p)}} : TRUE
parse_logical_or(p) == parse_logical_or_loop(p, << >>)

\* Parser::parse_assignment
parse_assignment(p) ==
    CHOOSE out \in {IF ~l.ok THEN l ELSE
        CHOOSE out \in {IF ~a.ok THEN a ELSE
            IF ~a.v THEN l ELSE
            CHOOSE out \in {IF ~r.ok THEN r ELSE
                Parsed(r.p, Binary("Assign", l.v, r.v))
                : r \in {parse_assignment(a.p)}} : TRUE
            : a \in {eat(l.p, Token("Assign"))}} : TRUE
        : l \in {parse_logical_or(p)}} : TRUE

\* The declarator list: expect_ident, push (name, ty), until no Comma follows
RECURSIVE parse_declarators(_, _, _)
parse_declarators(p, ty, decls) ==
    CHOOSE out \in {IF ~n.ok THEN n ELSE
        CHOOSE out \in {IF ~e.ok THEN e ELSE
            IF e.v THEN parse_declarators(e.p, ty, Append(decls, <<n.v, ty>>))
              ELSE Parsed(e.p, Append(decls, <<n.v, ty>>))
            : e \in {eat(n.p, Token("Comma"))}} : TRUE
        : n \in {expect_ident(p)}} : TRUE

\* Parser::parse_block, its loop shared with the body of parse_func
parse_stmts(p, stmts) ==
    IF p.cur = Token("RBrace") THEN Parsed(p, stmts)
    ELSE
         CHOOSE out \in {IF ~s.ok THEN s ELSE
             parse_stmts(s.p, Append(stmts, s.v))
             : s \in {parse_stmt(p)}} : TRUE
parse_block(p) ==
    CHOOSE out \in {IF ~l.ok THEN l ELSE
        CHOOSE out \in {IF ~b.ok THEN b ELSE
            CHOOSE out \in {IF ~r.ok THEN r ELSE
                Parsed(r.p, b.v)
                : r \in {bump(b.p)}} : TRUE
            : b \in {parse_stmts(l.p, << >>)}} : TRUE
        : l \in {expect(p, Token("LBrace"))}} : TRUE

\* Parser::parse_stmt
parse_stmt(p) ==
    CASE p.cur.tag \in {"KwInt", "KwChar"} ->
            CHOOSE out \in {IF ~t.ok THEN t ELSE
                CHOOSE out \in {IF ~d.ok THEN d ELSE
                    CHOOSE out \in {IF ~x.ok THEN x ELSE
                        parse_stmt(x.p)
                        : x \in {expect(d.p, Token("Semicolon"))}} : TRUE
                    : d \in {parse_declarators(t.p, t.v, << >>)}} : TRUE
                : t \in {parse_type(p)}} : TRUE
      [] p.cur.tag = "KwIf" ->
            CHOOSE out \in {IF ~b.ok THEN b ELSE
                CHOOSE out \in {IF ~l.ok THEN l ELSE
                    CHOOSE out \in {IF ~c.ok THEN c ELSE
                        CHOOSE out \in {IF ~r.ok THEN r ELSE
                            CHOOSE out \in {IF ~t.ok THEN t ELSE
                                CHOOSE out \in {IF ~k.ok THEN k ELSE
                                    IF ~k.v THEN Parsed(k.p, If(c.v, t.v, << >>)) ELSE
                                    CHOOSE out \in {IF ~e.ok THEN e ELSE
                                        Parsed(e.p, If(c.v, t.v, <<e.v>>))
                                        : e \in {parse_stmt(k.p)}} : TRUE
                                    : k \in {eat(t.p, Token("KwElse"))}} : TRUE
                                : t \in {parse_stmt(r.p)}} : TRUE
                            : r \in {expect(c.p, Token("RParen"))}} : TRUE
                        : c \in {parse_assignment(l.p)}} : TRUE
                    : l \in {expect(b.p, Token("LParen"))}} : TRUE
                : b \in {bump(p)}} : TRUE
      [] p.cur.tag = "KwWhile" ->
            CHOOSE out \in {IF ~b.ok THEN b ELSE
                CHOOSE out \in {IF ~l.ok THEN l ELSE
                    CHOOSE out \in {IF ~c.ok THEN c ELSE
                        CHOOSE out \in {IF ~r.ok THEN r ELSE
                            CHOOSE out \in {IF ~s.ok THEN s ELSE
                                Parsed(s.p, While(c.v, s.v))
                                : s \in {parse_stmt(r.p)}} : TRUE
                            : r \in {expect(c.p, Token("RParen"))}} : TRUE
                        : c \in {parse_assignment(l.p)}} : TRUE
                    : l \in {expect(b.p, Token("LParen"))}} : TRUE
                : b \in {bump(p)}} : TRUE
      [] p.cur.tag = "KwReturn" ->
            CHOOSE out \in {IF ~b.ok THEN b ELSE
                CHOOSE out \in {IF ~e.ok THEN e ELSE
                    CHOOSE out \in {IF ~x.ok THEN x ELSE
                        Parsed(x.p, Return(IF b.p.cur # Token("Semicolon") THEN <<e.v>> ELSE << >>))
                        : x \in {expect(e.p, Token("Semicolon"))}} : TRUE
                    : e \in {IF b.p.cur # Token("Semicolon") THEN parse_assignment(b.p) ELSE Parsed(b.p, << >>)}} : TRUE
                : b \in {bump(p)}} : TRUE
      [] p.cur.tag = "LBrace" ->
            CHOOSE out \in {IF ~b.ok THEN b ELSE
                Parsed(b.p, BlockStmt(b.v))
                : b \in {parse_block(p)}} : TRUE
      [] p.cur.tag = "Semicolon" ->
            CHOOSE out \in {IF ~b.ok THEN b ELSE
                Parsed(b.p, Empty)
                : b \in {bump(p)}} : TRUE
      [] OTHER ->
            CHOOSE out \in {IF ~e.ok THEN e ELSE
                CHOOSE out \in {IF ~x.ok THEN x ELSE
                    Parsed(x.p, ExprStmt(e.v))
                    : x \in {expect(e.p, Token("Semicolon"))}} : TRUE
                : e \in {parse_assignment(p)}} : TRUE

\* Parser::parse_func: the parameters, the leading local declarations, the
\* statements up to the closing brace and one more Stmt::Empty.
RECURSIVE parse_params(_, _)
parse_params(p, params) ==
    CHOOSE out \in {IF ~t.ok THEN t ELSE
        CHOOSE out \in {IF ~n.ok THEN n ELSE
            CHOOSE out \in {IF ~e.ok THEN e ELSE
                IF e.v THEN parse_params(e.p, Append(params, <<n.v, t.v>>))
                   ELSE Parsed(e.p, Append(params, <<n.v, t.v>>))
                : e \in {eat(n.p, Token("Comma"))}} : TRUE
            : n \in {expect_ident(t.p)}} : TRUE
        : t \in {parse_type(p)}} : TRUE
RECURSIVE parse_locals(_, _)
parse_locals(p, locals) ==
    IF p.cur.tag \notin {"KwInt", "KwChar"} THEN Parsed(p, locals)
    ELSE
         CHOOSE out \in {IF ~t.ok THEN t ELSE
             CHOOSE out \in {IF ~d.ok THEN d ELSE
                 CHOOSE out \in {IF ~x.ok THEN x ELSE
                     parse_locals(x.p, d.v)
                     : x \in {expect(d.p, Token("Semicolon"))}} : TRUE
                 : d \in {parse_declarators(t.p, t.v, locals)}} : TRUE
             : t \in {parse_type(p)}} : TRUE
parse_func(p, name, ret_ty) ==
    CHOOSE out \in {IF ~a.ok THEN a ELSE
        CHOOSE out \in {IF ~r.ok THEN r ELSE
            CHOOSE out \in {IF ~l.ok THEN l ELSE
                CHOOSE out \in {IF ~d.ok THEN d ELSE
                    CHOOSE out \in {IF ~s.ok THEN s ELSE
                        CHOOSE out \in {IF ~b.ok THEN b ELSE
                            Parsed(b.p, FuncDef(ret_ty, name, a.v, d.v, Append(s.v, Empty)))
                            : b \in {bump(s.p)}} : TRUE
                        : s \in {parse_stmts(d.p, << >>)}} : TRUE
                    : d \in {parse_locals(l.p, << >>)}} : TRUE
                : l \in {expect(r.p, Token("LBrace"))}} : TRUE
            : r \in {expect(a.p, Token("RParen"))}} : TRUE
        : a \in {IF p.cur # Token("RParen") THEN parse_params(p, << >>) ELSE Parsed(p, << >>)}} : TRUE

\* Parser::parse_enum
RECURSIVE parse_variants(_, _)
parse_variants(p, variants) ==
    IF p.cur = Token("RBrace") THEN Parsed(p, variants)
    ELSE
         CHOOSE out \in {IF ~n.ok THEN n ELSE
             CHOOSE out \in {IF ~a.ok THEN a ELSE
                 CHOOSE out \in {IF ~i.ok THEN i ELSE
                     IF a.v /\ i.v.tag # "Num"
                        THEN Failed(i.p, ParseError("enum initializer must be a number", NoToken, NoToken))
                        ELSE
                     CHOOSE out \in {IF ~c.ok THEN c ELSE
                         IF c.v THEN parse_variants(c.p, Append(variants, <<n.v, IF a.v THEN <<i.v.n>> ELSE << >> >>))
                             ELSE Parsed(c.p, Append(variants, <<n.v, IF a.v THEN <<i.v.n>> ELSE << >> >>))
                         : c \in {eat(i.p, Token("Comma"))}} : TRUE
                     : i \in {IF a.v THEN parse_assignment(a.p) ELSE Parsed(a.p, << >>)}} : TRUE
                 : a \in {eat(n.p, Token("Assign"))}} : TRUE
             : n \in {expect_ident(p)}} : TRUE
parse_enum(p) ==
    CHOOSE out \in {IF ~k.ok THEN k ELSE
        CHOOSE out \in {IF ~l.ok THEN l ELSE
            CHOOSE out \in {IF ~v.ok THEN v ELSE
                CHOOSE out \in {IF ~r.ok THEN r ELSE
                    Parsed(r.p, EnumDecl(v.v))
                    : r \in {expect(v.p, Token("RBrace"))}} : TRUE
                : v \in {parse_variants(l.p, << >>)}} : TRUE
            : l \in {expect(k.p, Token("LBrace"))}} : TRUE
        : k \in {expect(p, Token("KwEnum"))}} : TRUE

\* Parser::parse_item
RECURSIVE parse_globals(_, _, _)
parse_globals(p, ty, items) ==
    CHOOSE out \in {IF ~c.ok THEN c ELSE
        IF ~c.v THEN Parsed(c.p, items) ELSE
        CHOOSE out \in {IF ~n.ok THEN n ELSE
            parse_globals(n.p, ty, Append(items, GlobalDecl(n.v, ty)))
            : n \in {expect_ident(c.p)}} : TRUE
        : c \in {eat(p, Token("Comma"))}} : TRUE
parse_item(p) ==
    IF p.cur = Token("KwEnum")
    THEN
         CHOOSE out \in {IF ~e.ok THEN e ELSE
             CHOOSE out \in {IF ~x.ok THEN x ELSE
                 Parsed(x.p, <<e.v>>)
                 : x \in {expect(e.p, Token("Semicolon"))}} : TRUE
             : e \in {parse_enum(p)}} : TRUE
    ELSE
         CHOOSE out \in {IF ~t.ok THEN t ELSE
             CHOOSE out \in {IF ~n.ok THEN n ELSE
                 CHOOSE out \in {IF ~l.ok THEN l ELSE
                     IF l.v
                        THEN
                             CHOOSE out \in {IF ~f.ok THEN f ELSE
                                 Parsed(f.p, <<f.v>>)
                                 : f \in {parse_func(l.p, n.v, t.v)}} : TRUE
                        ELSE
                             CHOOSE out \in {IF ~g.ok THEN g ELSE
                                 CHOOSE out \in {IF ~x.ok THEN x ELSE
                                     Parsed(x.p, g.v)
                                     : x \in {expect(g.p, Token("Semicolon"))}} : TRUE
                                 : g \in {parse_globals(l.p, t.v, <<GlobalDecl(n.v, t.v)>>)}} : TRUE
                     : l \in {eat(n.p, Token("LParen"))}} : TRUE
                 : n \in {expect_ident(t.p)}} : TRUE
             : t \in {parse_type(p)}} : TRUE

\* Parser::parse_program
RECURSIVE parse_items(_, _)
parse_items(p, items) ==
    IF p.cur = Token("Eof") THEN Parsed(p, Program(items))
    ELSE
         CHOOSE out \in {IF ~i.ok THEN i ELSE
             parse_items(i.p, items \o i.v)
             : i \in {parse_item(p)}} : TRUE
parse_program(p) == parse_items(p, << >>)

(***************************************************************************)
(* bytecode.rs: the opcodes, the four shapes of an instruction and the     *)
(* Chunk that collects them.                                               *)
(***************************************************************************)
OpCode ==
    {"LEA", "IMM", "JMP", "JSR", "BZ", "BNZ", "ENT", "ADJ", "LEV", "LI", "LC", "SI", "SC",
     "PSH", "OR", "XOR", "AND", "EQ", "NE", "LT", "GT", "LE", "GE", "SHL", "SHR", "ADD",
     "SUB", "MUL", "DIV", "MOD", "OPEN", "READ", "CLOS", "PRTF", "MALC", "FREE", "MSET",
     "MCMP", "EXIT"}
Instruction_Instr(op) == [tag |-> "Instr", op |-> op]
Instruction_InstrInt(op, val) == [tag |-> "InstrInt", op |-> op, val |-> val]
Instruction_Jump(op, target) == [tag |-> "Jump", op |-> op, target |-> target]
Instruction_Call(op, target) == [tag |-> "Call", op |-> op, target |-> target]

\* Chunk::default
Chunk_default == [code |-> << >>]
\* Chunk::push .. Chunk::push_call: Vec::push of the instruction built
Chunk_push_First(c, op) == [c EXCEPT !.code = <<Instruction_Instr(op)>> \o @]
Chunk_push(c, op) == [c EXCEPT !.code = Append(@, Instruction_Instr(op))]
Chunk_push_int(c, op, val) == [c EXCEPT !.code = Append(@, Instruction_InstrInt(op, val))]
Chunk_push_jump(c, op, target) == [c EXCEPT !.code = Append(@, Instruction_Jump(op, target))]
Chunk_push_call(c, op, target) == [c EXCEPT !.code = Append(@, Instruction_Call(op, target))]

(***************************************************************************)
(* The machine.  `input` and `profile` are fixed by Init; code, pc, acc    *)
(* and stack are the fields VM::run works on; status, panicMsg and result  *)
(* are the outcome of compile / run; last and hits record what ran.        *)
(***************************************************************************)
VARIABLES input, profile, status, panicMsg, code, pc, acc, stack, result, last, hits

\* The lexer under test and, for every next_token call made on it, the
\* iterator's position before the call (from), the position of the token's
\* first character (idx), the position after the call (to) and the Result.
VARIABLES lexer, tokens

\* The parser under test (its lexer and its current token) and the Result of
\* Parser::new followed by parse_program, once it has returned.
VARIABLES parser, parsed

\* The Chunk under construction and the call last made on it.
VARIABLES chunk, pushed

vars == <<input, profile, status, panicMsg, code, pc, acc, stack, result, last, hits,
          lexer, tokens, parser, parsed, chunk, pushed>>

NoParser == [lex |-> Lexer_new(<< >>), cur |-> NoToken]
NotParsed == [tag |-> "none"]
NoPush == [fn |-> "none"]

\* How often one instruction may be executed in a run of the model.
MaxVisits == 3

NoLast == [pc |-> 0, opcode |-> "none", operand |-> <<>>, acc |-> 0, stack |-> <<>>]
NoHits(c) == [i \in 0 .. Len(c) - 1 |-> 0]

\* VM::run, the loop's guard and fetch: the instruction at pc, pc advanced.
Fetching == status = "running" /\ pc < Len(code)
Instr == code[pc + 1]
Fetch(op) ==
    /\ Fetching
    /\ Instr.opcode = op
    /\ hits[pc] < MaxVisits
    /\ last' = [pc |-> pc, opcode |-> Instr.opcode, operand |-> Instr.operand,
                acc |-> acc, stack |-> stack]
    /\ hits' = [hits EXCEPT ![pc] = @ + 1]
    /\ UNCHANGED <<input, profile, code, lexer, tokens, parser, parsed,
                   chunk, pushed>>

\* A panic unwinds out of run: no result, and pc stays advanced past the
\* instruction that raised it.
Panic(msg) ==
    /\ status' = "panic"
    /\ panicMsg' = msg
    /\ pc' = pc + 1
    /\ UNCHANGED <<acc, stack, result>>

Continue(nextPc, a, s) ==
    /\ status' = "running"
    /\ pc' = nextPc
    /\ acc' = a
    /\ stack' = s
    /\ UNCHANGED <<panicMsg, result>>

\* Option::expect on the operand
NoOperand == Instr.operand = << >>
Operand == Instr.operand[1]

StepImm ==
    /\ Fetch("Imm")
    /\ IF NoOperand THEN Panic("IMM needs operand")
       ELSE Continue(pc + 1, Operand, stack)

StepPush ==
    /\ Fetch("Push")
    /\ Continue(pc + 1, acc, Append(stack, acc))

\* One of the sixteen arms Add .. Shr: pop, then assign the accumulator.
StepBinary(op) ==
    /\ Fetch(op)
    /\ IF VecPop(stack) = << >> THEN Panic("Stack underflow")
       ELSE LET r == AccAfter(op, VecPop(stack)[1], acc, profile)
            IN IF r.panic
               THEN /\ status' = "panic"
                    /\ panicMsg' = "arithmetic overflow"
                    /\ pc' = pc + 1
                    /\ stack' = VecRest(stack)
                    /\ UNCHANGED <<acc, result>>
               ELSE Continue(pc + 1, r.v, VecRest(stack))

StepNot ==
    /\ Fetch("Not")
    /\ Continue(pc + 1, BitNot(acc), stack)

StepJmp_Stay ==
    /\ Fetch("Jmp")
    /\ IF NoOperand THEN Panic("JMP needs target")
       ELSE Continue(pc, acc, stack)
StepJmp ==
    /\ Fetch("Jmp")
    /\ IF NoOperand THEN Panic("JMP needs target")
       ELSE Continue(AsUsize(Operand), acc, stack)

StepJz_Inverted ==
    /\ Fetch("Jz")
    /\ IF acc # 0
       THEN IF NoOperand THEN Panic("JZ needs target")
            ELSE Continue(AsUsize(Operand), acc, stack)
       ELSE Continue(pc + 1, acc, stack)
StepJz ==
    /\ Fetch("Jz")
    /\ IF acc = 0
       THEN IF NoOperand THEN Panic("JZ needs target")
            ELSE Continue(AsUsize(Operand), acc, stack)
       ELSE Continue(pc + 1, acc, stack)

StepJnz ==
    /\ Fetch("Jnz")
    /\ IF acc # 0
       THEN IF NoOperand THEN Panic("JNZ needs target")
            ELSE Continue(AsUsize(Operand), acc, stack)
       ELSE Continue(pc + 1, acc, stack)

StepExit ==
    /\ Fetch("Exit")
    /\ status' = "returned"
    /\ result' = <<acc>>
    /\ pc' = pc + 1
    /\ UNCHANGED <<panicMsg, acc, stack>>

\* The printf stub prints the accumulator and changes nothing.
StepPrintf ==
    /\ Fetch("Printf")
    /\ Continue(pc + 1, acc, stack)

\* `_ => panic!("Unsupported opcode: ...")`
StepUnsupported ==
    /\ Fetching
    /\ Instr.opcode \notin HandledOps
    /\ Fetch(Instr.opcode)
    /\ Panic("Unsupported opcode")

\* The loop's guard fails: run returns self.acc.
RunEnd ==
    /\ status = "running"
    /\ pc >= Len(code)
    /\ status' = "returned"
    /\ result' = <<acc>>
    /\ UNCHANGED <<input, profile, panicMsg, code, pc, acc, stack, last, hits, lexer, tokens, parser, parsed,
                   chunk, pushed>>


(***************************************************************************)
(* The inputs: bytecode handed to run directly, as the tests of            *)
(* src/tests/vm_tests.rs do, and programs handed to compile.               *)
(***************************************************************************)
StackCap == 1024
MaxLit == 3

\* Cell values for the hand-written bytecode.
CellVals == {I32Min, -7, -1, 0, 1, 2, 3, 10, 31, 32, I32Max}

BinChunk(op, l, r) ==
    << Instruction_with_operand("Imm", l), Instruction_new("Push"),
       Instruction_with_operand("Imm", r), Instruction_new(op), Instruction_new("Exit") >>
\* A popping instruction met with nothing pushed.
UnderflowChunk(op, r) ==
    << Instruction_with_operand("Imm", r), Instruction_new(op),
       Instruction_with_operand("Imm", 9), Instruction_new("Exit") >>
\* test_nested_arithmetic
NestedChunk ==
    << Instruction_with_operand("Imm", 5), Instruction_new("Push"),
       Instruction_with_operand("Imm", 3), Instruction_new("Add"), Instruction_new("Push"),
       Instruction_with_operand("Imm", 2), Instruction_new("Mul"), Instruction_new("Exit") >>
\* test_conditional_jump_false / _true, for any accumulator and branch opcode
BranchChunk(br, a, t) ==
    << Instruction_with_operand("Imm", a), Instruction_with_operand(br, t),
       Instruction_with_operand("Imm", 100), Instruction_new("Jmp"),
       Instruction_with_operand("Imm", 42), Instruction_new("Exit") >>
JumpChunk(t) ==
    << Instruction_with_operand("Imm", 7), Instruction_with_operand("Jmp", t),
       Instruction_with_operand("Imm", 100), Instruction_new("Exit") >>
\* test_call_and_return
CallChunk(v) ==
    << Instruction_with_operand("JSR", 2), Instruction_new("Exit"),
       Instruction_with_operand("Imm", v), Instruction_new("LEV") >>
\* test_stack_and_load_store / test_ent_adj_lev_function_frame, for a frame
\* of n locals, slot i and value v
FrameChunk(n, i, v) ==
    << Instruction_with_operand("JSR", 2), Instruction_new("Exit"),
       Instruction_with_operand("ENT", n), Instruction_with_operand("Imm", v),
       Instruction_new("Push"), Instruction_with_operand("LEA", i), Instruction_new("SI"),
       Instruction_with_operand("LEA", i), Instruction_new("LI"), Instruction_new("LEV") >>
\* StackCap + 1 pushes in a row
PushChunk ==
    [k \in 1 .. StackCap + 3 |->
        IF k = 1 THEN Instruction_with_operand("Imm", 1)
        ELSE IF k = StackCap + 3 THEN Instruction_new("Exit")
        ELSE Instruction_new("Push")]
MiscChunks ==
    { << Instruction_with_operand("Imm", 5), Instruction_new("Push"),
         Instruction_with_operand("Printf", 1), Instruction_new("Exit") >>,
      << Instruction_with_operand("Imm", 5), Instruction_new("Not"), Instruction_new("Exit") >>,
      << Instruction_with_operand("Imm", 0), Instruction_new("Not") >>,
      << Instruction_new("Imm"), Instruction_new("Exit") >>,
      << Instruction_with_operand("Imm", 10), Instruction_new("Push"),
         Instruction_with_operand("Imm", 20), Instruction_new("Lt") >>,
      << >> }

Chunks ==
    {BinChunk(op, l, r) : op \in BinaryOps, l \in CellVals, r \in CellVals}
    \cup {UnderflowChunk(op, r) : op \in BinaryOps, r \in {0, 1, 5}}
    \cup {BranchChunk(br, a, t) : br \in {"Jz", "Jnz"}, a \in {-1, 0, 1, 7}, t \in {2, 4, 6}}
    \cup {JumpChunk(t) : t \in {-1, 2, 3, 4}}
    \cup {CallChunk(v) : v \in {0, 42}}
    \cup {FrameChunk(n, i, v) : n \in 1 .. MaxLit, i \in 0 .. MaxLit - 1, v \in {99, 123}}
    \cup {NestedChunk, PushChunk}
    \cup MiscChunks

\* Integer literals: the small ones, and two outside the i32 range.
SmallLits == {Num(I64Of(v)) : v \in 0 .. MaxLit}
WideLits == {Num(I64(1, 5)), Num(I64(0, I32Min))}
AllBinOps == {"Add", "Sub", "Mul", "Div", "Mod", "Eq", "Ne", "Lt", "Le", "Gt", "Ge",
              "BitAnd", "BitOr", "Xor", "Shl", "Shr"}
NestOps == {"Add", "Sub", "Mul", "Div", "Lt", "Shl"}
Exprs1 == {Binary(op, l, r) : op \in AllBinOps, l \in SmallLits \cup {Num(I64Of(10))}, r \in SmallLits}
ExprsL == {Binary(o2, Binary(o1, a, b), c) : o1 \in NestOps, o2 \in NestOps,
               a \in SmallLits, b \in SmallLits, c \in SmallLits}
ExprsR == {Binary(o2, a, Binary(o1, b, c)) : o1 \in NestOps, o2 \in NestOps,
               a \in SmallLits, b \in SmallLits, c \in SmallLits}
TestExprs == {Binary("Mul", Binary("Add", Num(I64Of(2)), Num(I64Of(3))), Num(I64Of(8))),
              Binary("Add", Num(I64Of(20)), Num(I64Of(22))),
              Binary("Add", Num(I64(1, 5)), Num(I64Of(1)))}
ReturnExprs == SmallLits \cup WideLits \cup Exprs1 \cup ExprsL \cup ExprsR \cup TestExprs

Main(stmts) == Program(<< Function("main", stmts) >>)
ReturnProg(e) == Main(<< Return(<<e>>) >>)
ReturnProgs == {ReturnProg(e) : e \in ReturnExprs}

\* if (c) S1 [else S2], after the statements `pre` and before `return 8;`
Lit(v) == Num(I64Of(v))
IfConds == {Lit(0), Lit(1), Lit(MaxLit), Binary("Lt", Lit(1), Lit(2)),
            Binary("Sub", Lit(2), Lit(2)), Binary("Eq", Lit(1), Lit(2))}
ThenStmts == {Return(<<Lit(1)>>), ExprStmt(Binary("Add", Lit(1), Lit(2))), Empty,
              BlockStmt(<< ExprStmt(Lit(7)), Return(<<Lit(2)>>) >>)}
ElseOpts == {<< >>, << Return(<<Lit(2)>>) >>, << ExprStmt(Lit(9)) >>, << Empty >>,
             << If(Lit(0), Return(<<Lit(4)>>), << Return(<<Lit(5)>>) >>) >>}
Prefixes == {<< >>, << ExprStmt(Lit(6)) >>}
IfProg(pre, c, t, e) == Main(pre \o << If(c, t, e), Return(<<Lit(8)>>) >>)
IfProgs == {IfProg(pre, c, t, e) : pre \in Prefixes, c \in IfConds, t \in ThenStmts, e \in ElseOpts}

\* while (c) B, after `pre` and before `return 8;`
WhileConds == {Lit(0), Lit(1), Binary("Sub", Lit(2), Lit(2)), Binary("Lt", Lit(1), Lit(2))}
WhileBodies == {Empty, ExprStmt(Binary("Add", Lit(1), Lit(2))), Return(<<Lit(7)>>),
                BlockStmt(<< ExprStmt(Lit(7)) >>)}
WhileProg(pre, c, b) == Main(pre \o << While(c, b), Return(<<Lit(8)>>) >>)
WhileProgs == {WhileProg(pre, c, b) : pre \in Prefixes, c \in WhileConds, b \in WhileBodies}

\* int i; i = n; while (i) i = i - 1; return i;
Countdown(n) ==
    Main(<< ExprStmt(Binary("Assign", Var("i"), Lit(n))),
            While(Var("i"), ExprStmt(Binary("Assign", Var("i"),
                                            Binary("Sub", Var("i"), Lit(1))))),
            Return(<<Var("i")>>) >>)
CountdownProgs == {Countdown(n) : n \in 0 .. MaxLit}

\* The remaining shapes compile distinguishes.
OtherProgs ==
    { Program(<< >>),
      Program(<< Global("g"), Function("helper", << Return(<<Lit(1)>>) >>),
                 Function("main", << Return(<<Lit(2)>>) >>) >>),
      Main(<< Return(<< >>) >>),
      Main(<< >>),
      Main(<< ExprStmt(Binary("Add", Lit(1), Lit(2))), Return(<<Lit(5)>>) >>),
      Main(<< ExprStmt(Call(Var("printf"), << Lit(1), Lit(2) >>)), Return(<<Lit(5)>>) >>),
      Main(<< Return(<< Unary("Neg", Lit(5)) >>) >>),
      Main(<< Return(<< Unary("Not", Lit(0)) >>) >>),
      Main(<< Return(<< Conditional(Lit(0), Lit(1), Lit(2)) >>) >>),
      Main(<< Return(<< Conditional(Lit(3), Lit(1), Lit(2)) >>) >>),
      Main(<< Return(<< Binary("LogAnd", Lit(1), Lit(2)) >>) >>),
      Main(<< Return(<< Unary("BitNot", Lit(1)) >>) >>),
      Main(<< Return(<< Str("s") >>) >>),
      Main(<< Return(<< Call(Var("f"), << >>) >>) >>),
      Main(<< Return(<< Call(Lit(1), << >>) >>) >>) }

\* The forms compile_expr has no code for, each as the returned expression,
\* as an expression statement, under a supported operator, as a printf
\* argument, and in a function other than main.
UnsupportedUnOps == {"PreInc", "PreDec", "PostInc", "PostDec", "Plus", "BitNot", "Deref", "Addr"}
UnsupportedBinOps == {"Assign", "LogAnd", "LogOr"}
UnsupportedExprs ==
    {Var("x"), Str("s"), Cast("Int", Lit(1)), SizeOf("Int"), Index(Var("a"), Lit(0)),
     Call(Lit(1), << >>), Call(Var("f"), << Lit(1) >>)}
    \cup {Unary(op, Lit(1)) : op \in UnsupportedUnOps}
    \cup {Binary(op, Lit(1), Lit(2)) : op \in UnsupportedBinOps}
UnsupportedProgs ==
    {Main(<< Return(<<e>>) >>) : e \in UnsupportedExprs}
    \cup {Main(<< ExprStmt(Lit(1)), ExprStmt(e), Return(<<Lit(2)>>) >>) : e \in UnsupportedExprs}
    \cup {Main(<< Return(<< Binary("Add", Lit(1), e) >>) >>) : e \in UnsupportedExprs}
    \cup {Main(<< ExprStmt(Call(Var("printf"), << Lit(1), e >>)), Return(<<Lit(2)>>) >>) :
              e \in UnsupportedExprs}
    \cup {Program(<< Function("helper", << Return(<<e>>) >>),
                     Function("main", << Return(<<Lit(2)>>) >>) >>) : e \in UnsupportedExprs}

\* printf(a1, .., ak); return 5;  for up to MaxArgs arguments
MaxArgs == 3
ArgExprs == {Lit(1), Lit(2), Binary("Add", Lit(1), Lit(2)), Conditional(Lit(0), Lit(1), Lit(3))}
ArgLists == UNION {[1 .. k -> ArgExprs] : k \in 0 .. MaxArgs}
CallProg(args) == Main(<< ExprStmt(Call(Var("printf"), args)), Return(<<Lit(5)>>) >>)
CallProgs == {CallProg(args) : args \in ArgLists}

\* e; return k;  for the expressions compile_expr has code for
StmtExprs ==
    {Lit(7), Binary("Add", Lit(1), Lit(2)), Binary("Lt", Lit(2), Lit(1)),
     Binary("Mul", Binary("Add", Lit(1), Lit(2)), Lit(3)),
     Unary("Not", Lit(0)), Conditional(Lit(1), Lit(2), Lit(3)),
     Conditional(Lit(0), Lit(2), Binary("Sub", Lit(3), Lit(1))),
     Call(Var("printf"), << >>), Call(Var("printf"), << Lit(1) >>),
     Call(Var("printf"), << Lit(1), Binary("Add", Lit(1), Lit(2)) >>)}
ExprStmtProg(e, k) == Main(<< ExprStmt(e), Return(<<Lit(k)>>) >>)
ExprStmtProgs == {ExprStmtProg(e, k) : e \in StmtExprs, k \in 0 .. MaxLit}

\* Unary minus and logical not, alone, nested, as an operand and as the
\* condition of an if; and the ternary in a return.
UnaryOperands == {Lit(v) : v \in 0 .. MaxLit} \cup {Lit(5)}
NegExprs ==
    {Unary("Neg", l) : l \in UnaryOperands}
    \cup {Binary(op, Lit(10), Unary("Neg", l)) : op \in {"Add", "Sub", "Mul"}, l \in UnaryOperands}
    \cup {Unary("Neg", Unary("Neg", l)) : l \in UnaryOperands}
    \cup {Binary("Add", Unary("Neg", l), Lit(1)) : l \in UnaryOperands}
    \cup {Unary("Neg", Binary("Add", l, Lit(1))) : l \in UnaryOperands}
NegProgs == {ReturnProg(e) : e \in NegExprs}
NotExprs ==
    {Unary("Not", l) : l \in UnaryOperands}
    \cup {Unary("Not", Unary("Not", l)) : l \in UnaryOperands}
    \cup {Unary("Not", Binary("Sub", l, Lit(1))) : l \in UnaryOperands}
NotIfProg(e, els) ==
    Main(<< If(Unary("Not", e), Return(<<Lit(1)>>), els), Return(<<Lit(8)>>) >>)
NotIfProgs == {NotIfProg(l, els) : l \in UnaryOperands, els \in {<< >>, << Return(<<Lit(2)>>) >>}}
NotProgs == {ReturnProg(e) : e \in NotExprs} \cup NotIfProgs
TernaryExprs ==
    {Conditional(c, t, e) :
        c \in IfConds,
        t \in {Lit(1), Conditional(Lit(0), Lit(2), Lit(3))},
        e \in {Lit(2), Binary("Add", Lit(1), Lit(2)), Conditional(Lit(1), Lit(4), Lit(5))}}
TernaryProgs ==
    {ReturnProg(e) : e \in TernaryExprs}
    \cup {Main(<< ExprStmt(e), While(Lit(0), ExprStmt(e)), Return(<<Lit(8)>>) >>) :
              e \in TernaryExprs}

Programs == ReturnProgs \cup IfProgs \cup WhileProgs \cup CountdownProgs \cup OtherProgs
            \cup UnsupportedProgs \cup CallProgs \cup ExprStmtProgs
            \cup NegProgs \cup NotProgs \cup TernaryProgs

Inputs ==
    {[kind |-> "chunk", chunk |-> c] : c \in Chunks}
    \cup {[kind |-> "ast", program |-> p] : p \in Programs}

(***************************************************************************)
(* Init is VM::new() with nothing compiled yet; Compile and LoadChunk are  *)
(* the two ways the tests obtain the code that run is called on.           *)
(***************************************************************************)
Init ==
    /\ input \in Inputs
    /\ profile \in {"debug", "release"}
    /\ status = "init"
    /\ panicMsg = ""
    /\ code = << >>
    /\ pc = 0
    /\ acc = 0
    /\ stack = << >>
    /\ result = << >>
    /\ last = NoLast
    /\ hits = NoHits(<< >>)
    /\ lexer = Lexer_new(<< >>)
    /\ tokens = << >>
    /\ parser = NoParser
    /\ parsed = NotParsed
    /\ chunk = Chunk_default
    /\ pushed = NoPush

Compile ==
    /\ status = "init"
    /\ input.kind = "ast"
    /\ LET c == compile(input.program)
       IN IF c.panic # << >>
          THEN /\ status' = "panic"
               /\ panicMsg' = c.panic[1]
               /\ UNCHANGED <<code, hits>>
          ELSE /\ status' = "running"
               /\ code' = c.code
               /\ hits' = NoHits(c.code)
               /\ UNCHANGED panicMsg
    /\ UNCHANGED <<input, profile, pc, acc, stack, result, last, lexer, tokens, parser, parsed,
                   chunk, pushed>>

LoadChunk ==
    /\ status = "init"
    /\ input.kind = "chunk"
    /\ status' = "running"
    /\ code' = input.chunk
    /\ hits' = NoHits(input.chunk)
    /\ UNCHANGED <<input, profile, panicMsg, pc, acc, stack, result, last, lexer, tokens, parser, parsed,
                   chunk, pushed>>

Next ==
    \/ Compile
    \/ LoadChunk
    \/ StepImm
    \/ StepPush
    \/ \E op \in BinaryOps : StepBinary(op)
    \/ StepNot
    \/ StepJmp
    \/ StepJz
    \/ StepJnz
    \/ StepExit
    \/ StepPrintf
    \/ StepUnsupported
    \/ RunEnd

Spec == Init /\ [][Next]_vars

\* VM::run is one loop: once entered it fetches and executes until an
\* instruction returns or the code ends, so a step of the run that can be
\* taken is taken.
RunStep ==
    \/ StepImm
    \/ StepPush
    \/ \E op \in BinaryOps : StepBinary(op)
    \/ StepNot
    \/ StepJmp
    \/ StepJz
    \/ StepJnz
    \/ StepExit
    \/ StepPrintf
    \/ StepUnsupported
    \/ RunEnd
FairSpec == Spec /\ WF_vars(RunStep)

(***************************************************************************)
(* The lexer's inputs: every text of up to MaxLen characters over each of  *)
(* a few small alphabets, and the texts of src/tests/lexer_tests.rs.       *)
(***************************************************************************)
MaxLen == 4
MaxEofCalls == 2

Texts(alphabet, n) == UNION {[1 .. k -> alphabet] : k \in 0 .. n}
NumberTexts == Texts({Code["0"], Code["7"], Code["8"], Code["x"], Code["A"], Code[" "]}, MaxLen)
SkipTexts == Texts({Code["a"], Code["/"], Code["#"], Code["\n"], Code[" "]}, MaxLen)
StringTexts == {Text(<<"\"">>) \o t : t \in Texts({Code["a"], Code["n"], Code["\\"], Code["\""], Code["#"]}, MaxLen)}
CharTexts == {Text(<<"'">>) \o t : t \in Texts({Code["a"], Code["n"], Code["\\"], Code["'"]}, MaxLen)}
OperatorTexts == Texts({Code["+"], Code["="], Code["<"], Code["/"], Code["@"], Code["_"]}, MaxLen - 1)
TestTexts ==
    { Text(<<"\f">>),
      <<11>>,
      <<Code["a"], 11, Code["b"], 133, 160, 5760, Code["c"], 8192, 8202, 8232, 12288>>,
      <<8203, Code["a"]>>,
      <<Code["a"], 233>>,
      <<Code["'"], 160, Code["'"]>>,
      <<Code["'"], 233, Code["'"], Code["\""], 8233, 233, Code["\""]>>,
      Text(<<"\f", "a", "\f", "\t", "\r", "b">>),
      Text(<<"'", "\f", "'">>),
      Text(<<"0", "x", "1", "A", "3", "F">>),
      Text(<<"0", "X", "d", "e", "a", "d", "B", "E", "E", "F">>),
      Text(<<"0", " ", "0", "7", "5", "5">>),
      Text(<<"0", "7", "5", "5">>),
      Text(<<"4", "9", "3">>),
      Text(<<"0", " ", "1", "2", "3", " ", "4", "5", "6", "7", "8">>),
      Text(<<"9", "2", "2", "3", "3", "7", "2", "0", "3", "6", "8", "5", "4", "7", "7",
        "5", "8", "0", "7">>),
      Text(<<"9", "2", "2", "3", "3", "7", "2", "0", "3", "6", "8", "5", "4", "7", "7",
        "5", "8", "0", "8">>),
      Text(<<"0", "7", "7", "7", "7", "7", "7", "7", "7", "7", "7", "7", "7", "7", "7",
        "7", "7", "7", "7", "7", "7", "7">>),
      Text(<<"#", "d", "e", "f", "i", "n", "e", " ", "X", " ", "4", "2", "\n", " ", " ", "X">>),
      Text(<<"a", " ", "/", "/", " ", "c", "\n", "b", " ", "/", " ", "c">>),
      Text(<<"x", " ", "#", " ", "y", "\n", "z">>),
      Text(<<"\"", "n", "o", " ", "e", "n", "d">>),
      Text(<<"\"", "h", "i", "\\", "n", "\"">>),
      Text(<<"\"", "a", "\\", "\"", "b", "\\", "\\", "\"", ";">>),
      Text(<<"'", "a", "'", " ", "'", "\\", "n", "'", " ", "'", "\\", "'", "'">>),
      Text(<<"i", "n", "t", " ", "m", "a", "i", "n", "(", ")", "{", "r", "e", "t", "u", "r", "n",
        " ", "x", "_", "1", "<", "<", "2", ";", "}">>),
      Text(<<"i", "f", " ", "e", "l", "s", "e", " ", "w", "h", "i", "l", "e", " ", "c", "h", "a", "r",
        " ", "v", "o", "i", "d", " ", "e", "n", "u", "m", " ", "s", "i", "z", "e", "o", "f">>),
      Text(<<"=", "=", "!", "=", "<", "=", ">", "=", "&", "&", "|", "|", "<", "<", ">", ">",
        "+", "+", "-", "-">>),
      Text(<<"+", "-", "*", "/", "%", "=", "!", "<", ">", "&", "|", "^", "~", "?", ":", ";",
        ",", "(", ")", "{", "}", "[", "]">>) }
Sources == NumberTexts \cup SkipTexts \cup StringTexts \cup CharTexts \cup OperatorTexts
           \cup TestTexts

\* A fresh lexer on one of the inputs; the machine is not used.
LexInit ==
    /\ lexer \in {Lexer_new(src) : src \in Sources}
    /\ tokens = << >>
    /\ input = [kind |-> "none"]
    /\ profile = "debug"
    /\ status = "init"
    /\ panicMsg = ""
    /\ code = << >>
    /\ pc = 0
    /\ acc = 0
    /\ stack = << >>
    /\ result = << >>
    /\ last = NoLast
    /\ hits = NoHits(<< >>)
    /\ parser = NoParser
    /\ parsed = NotParsed
    /\ chunk = Chunk_default
    /\ pushed = NoPush

IsEof(call) == call.res.ok /\ call.res.tok.tag = "Eof"
EofCalls == Cardinality({i \in 1 .. Len(tokens) : IsEof(tokens[i])})

\* One call of Lexer::next_token.
NextToken ==
    /\ EofCalls <= MaxEofCalls
    /\ LET r == next_token(lexer)
       IN /\ lexer' = r.lexer
          /\ tokens' = Append(tokens, [from |-> lexer.iter, idx |-> r.idx,
                                       to |-> r.lexer.iter, res |-> r.res])
    /\ UNCHANGED <<input, profile, status, panicMsg, code, pc, acc, stack, result, last, hits,
                   parser, parsed, chunk, pushed>>

LexNext == NextToken

LexSpec == LexInit /\ [][LexNext]_vars

(***************************************************************************)
(* The parser's inputs: the texts of src/tests/parser_tests.rs and small   *)
(* programs built around every operator, postfix form, declaration        *)
(* position and misplaced token.                                           *)
(***************************************************************************)
GlobalAndEnumText ==
    Text(<<"i", "n", "t", " ", "a", ",", " ", "b", ";", "\n", "e", "n", "u", "m", " ", "{",
      " ", "X", " ", "=", " ", "1", ",", " ", "Y", ",", " ", "Z", " ", "=", " ", "5",
      " ", "}", ";", "\n", "c", "h", "a", "r", " ", "*", "p", ";">>)
FunctionAndStatementsText ==
    Text(<<"v", "o", "i", "d", " ", "f", "o", "o", "(", "i", "n", "t", " ", "x", ",", " ",
      "c", "h", "a", "r", " ", "y", ")", " ", "{", "\n", ";", " ", "/", "/", " ", "e",
      "m", "p", "t", "y", " ", "s", "t", "m", "t", "\n", "{", "\n", "i", "n", "t", " ",
      "z", ";", "\n", "z", " ", "=", " ", "x", " ", "+", " ", "y", ";", "\n", "}", "\n",
      "i", "f", " ", "(", "z", " ", ">", " ", "0", ")", " ", "z", "-", "-", ";", "\n",
      "e", "l", "s", "e", " ", "+", "+", "z", ";", "\n", "w", "h", "i", "l", "e", " ",
      "(", "x", " ", "!", "=", " ", "0", ")", " ", "{", " ", "x", " ", "=", " ", "x",
      " ", "-", " ", "1", ";", " ", "}", "\n", "r", "e", "t", "u", "r", "n", ";", "\n",
      "}">>)
UnaryText ==
    Text(<<"i", "n", "t", " ", "u", "(", ")", " ", "{", "\n", "r", "e", "t", "u", "r", "n",
      " ", "+", "x", " ", "-", " ", "!", "y", " ", "*", " ", "~", "z", " ", "&", " ",
      "*", "p", " ", "|", " ", "&", "q", ";", "\n", "}">>)
PostfixText ==
    Text(<<"i", "n", "t", " ", "p", "(", ")", " ", "{", " ", "r", "e", "t", "u", "r", "n",
      " ", "a", "+", "+", " ", "+", " ", "-", "-", "b", ";", " ", "}">>)
SizeofAndCastText ==
    Text(<<"i", "n", "t", " ", "c", "(", ")", " ", "{", " ", "r", "e", "t", "u", "r", "n",
      " ", "s", "i", "z", "e", "o", "f", "(", "i", "n", "t", ")", " ", "+", " ", "s",
      "i", "z", "e", "o", "f", "(", "c", "h", "a", "r", "*", ")", " ", "+", " ", "(",
      "c", "h", "a", "r", "*", ")", "p", ";", " ", "}">>)
ShiftsAndBitwiseText ==
    Text(<<"i", "n", "t", " ", "s", "(", ")", " ", "{", " ", "r", "e", "t", "u", "r", "n",
      " ", "a", " ", "<", "<", " ", "2", " ", ">", ">", " ", "1", " ", "&", " ", "b",
      " ", "|", " ", "c", " ", "^", " ", "d", ";", " ", "}">>)
TernaryAndLogicalText ==
    Text(<<"i", "n", "t", " ", "t", "(", ")", " ", "{", " ", "r", "e", "t", "u", "r", "n",
      " ", "a", " ", "?", " ", "b", " ", ":", " ", "c", " ", "&", "&", " ", "d", " ",
      "|", "|", " ", "e", ";", " ", "}">>)
IndexingAndCallsText ==
    Text(<<"i", "n", "t", " ", "w", "(", ")", " ", "{", "\n", "r", "e", "t", "u", "r", "n",
      " ", "f", "o", "o", "(", "\"", "h", "i", "\\", "n", "\"", ",", " ", "a", "r", "r",
      "[", "0", "]", ",", " ", "x", " ", "*", " ", "y", ")", ";", "\n", "}">>)
ParserTestTexts ==
    { GlobalAndEnumText, FunctionAndStatementsText, UnaryText, PostfixText,
      SizeofAndCastText, ShiftsAndBitwiseText, TernaryAndLogicalText,
      IndexingAndCallsText }

\* int m() { body }
BodyText(body) == Text(<<"i", "n", "t", " ", "m", "(", ")", " ", "{", " ">>) \o body \o Text(<<" ", "}">>)
\* int m() { return e; }
ReturnText(e) == BodyText(Text(<<"r", "e", "t", "u", "r", "n", " ">>) \o e \o Text(<<";">>))

BinOpLexemes ==
    { Text(<<"|">>), Text(<<"^">>), Text(<<"&">>), Text(<<"=", "=">>), Text(<<"!", "=">>), Text(<<"<">>), Text(<<">">>), Text(<<"<", "=">>), Text(<<">", "=">>), Text(<<"<", "<">>), Text(<<">", ">">>),
      Text(<<"+">>), Text(<<"-">>), Text(<<"*">>), Text(<<"/">>), Text(<<"%">>), Text(<<"&", "&">>), Text(<<"|", "|">>), Text(<<"=">>) }
PrefixLexemes == { Text(<<"+", "+">>), Text(<<"-", "-">>), Text(<<"+">>), Text(<<"-">>), Text(<<"!">>), Text(<<"~">>), Text(<<"*">>), Text(<<"&">>) }
PostfixLexemes == { << >>, Text(<<"[", "0", "]">>), Text(<<"+", "+">>), Text(<<"-", "-">>), Text(<<"(", "x", ")">>), Text(<<"(", ")">>), Text(<<"(", "x", ",", " ", "y", ")">>), Text(<<"[", "0", "]", "+", "+">>) }
PrimaryLexemes == { Text(<<"a">>), Text(<<"f">>), Text(<<"5">>), Text(<<"(", "a", ")">>), Text(<<"(", "f", ")">>), Text(<<"(", "a", " ", "+", " ", "b", ")">>), Text(<<"\"", "s", "\"">>) }

\* a o1 b o2 c
TwoOpTexts ==
    {ReturnText(Text(<<"a", " ">>) \o o1 \o Text(<<" ", "b", " ">>) \o o2 \o Text(<<" ", "c">>)) : o1 \in BinOpLexemes, o2 \in BinOpLexemes}
\* a o1 b ? c : d
TernaryHeadTexts ==
    {ReturnText(Text(<<"a", " ">>) \o o1 \o Text(<<" ", "b", " ", "?", " ", "c", " ", ":", " ", "d">>)) : o1 \in BinOpLexemes}
\* a ? b : c o1 d o2 e
TernaryTailTexts ==
    {ReturnText(Text(<<"a", " ", "?", " ", "b", " ", ":", " ", "c", " ">>) \o o1 \o Text(<<" ", "d", " ">>) \o o2 \o Text(<<" ", "e">>))
        : o1 \in BinOpLexemes, o2 \in BinOpLexemes}
PostfixTexts ==
    {ReturnText(e \o post) : e \in PrimaryLexemes, post \in PostfixLexemes}
PrefixTexts ==
    {ReturnText(pre \o Text(<<" ">>) \o e) : pre \in PrefixLexemes, e \in PrimaryLexemes}
CastTexts ==
    {ReturnText(e) : e \in { Text(<<"(", "i", "n", "t", ")", "a">>), Text(<<"(", "c", "h", "a", "r", "*", ")", "a">>), Text(<<"(", "i", "n", "t", "*", "*", ")", "(", "a", ")">>), Text(<<"s", "i", "z", "e", "o", "f", "(", "i", "n", "t", ")">>),
                             Text(<<"s", "i", "z", "e", "o", "f", "(", "c", "h", "a", "r", "*", "*", ")">>), Text(<<"s", "i", "z", "e", "o", "f", "(", "a", ")">>), Text(<<"s", "i", "z", "e", "o", "f", " ", "i", "n", "t">>), Text(<<"(", "v", "o", "i", "d", ")", "a">>),
                             Text(<<"(", "i", "n", "t", " ", "a", ")">>) }}

\* Statement sequences with declarations at their start, in their middle and
\* inside nested blocks.
DeclStmts ==
    { Text(<<"i", "n", "t", " ", "x", ";">>), Text(<<"c", "h", "a", "r", " ", "y", ",", " ", "z", ";">>), Text(<<"i", "n", "t", " ", "*", "p", ";">>), Text(<<"x", " ", "=", " ", "1", ";">>), Text(<<";">>), Text(<<"{", " ", "i", "n", "t", " ", "z", ";", " ", "}">>),
      Text(<<"{", " ", "i", "n", "t", " ", "z", ";", " ", "z", " ", "=", " ", "1", ";", " ",   "}">>), Text(<<"{", " ", "z", " ", "=", " ", "1", ";", " ", "i", "n", "t", " ", "w", ";", " ",   "}">>), Text(<<"{", " ", "x", " ", "=", " ", "1", ";", " ", "}">>), Text(<<"i", "f", " ", "(", "x", ")", " ", "i", "n", "t", " ", "z", ";">>),
      Text(<<"w", "h", "i", "l", "e", " ", "(", "x", ")", " ", "{", " ", "i", "n", "t", " ",   "z", ";", " ", "x", " ", "=", " ", "0", ";", " ", "}">>) }
MaxStmts == 2
StmtTexts(n) ==
    UNION {[1 .. k -> DeclStmts] : k \in 0 .. n}
RECURSIVE Join(_)
Join(texts) ==
    IF texts = << >> THEN << >>
    ELSE IF Len(texts) = 1 THEN texts[1]
    ELSE texts[1] \o Text(<<" ">>) \o Join(Tail(texts))
DeclTexts == {BodyText(Join(ss)) : ss \in StmtTexts(MaxStmts)}

\* Texts that break the grammar at one token.
ErrorTexts ==
    { Text(<<"i", "n", "t", " ", "5", ";">>), Text(<<"i", "n", "t", " ", ";">>), Text(<<"i", "n", "t", " ", "m", "a", "i", "n", "(", " ", "{">>), Text(<<"i", "n", "t", " ", "m", "a", "i", "n", "(", "i", "n", "t", ")", " ", "{", " ",   "}">>), Text(<<"i", "n", "t", " ", "m", "a", "i", "n", "(", ")", " ", "r", "e", "t", "u", "r",   "n">>),
      Text(<<"i", "n", "t", " ", "m", "a", "i", "n", "(", ")", " ", "{", " ", "r", "e", "t",   "u", "r", "n", " ", "1", " ", "}">>), Text(<<"i", "n", "t", " ", "m", "a", "i", "n", "(", ")", " ", "{", " ", "i", "f", " ",   "x", ")", " ", ";", " ", "}">>), Text(<<"i", "n", "t", " ", "m", "a", "i", "n", "(", ")", " ", "{", " ", "w", "h", "i",   "l", "e", " ", "(", "x", " ", ";", " ", "}">>),
      Text(<<"i", "n", "t", " ", "m", "a", "i", "n", "(", ")", " ", "{", " ", "r", "e", "t",   "u", "r", "n", " ", "(", "1", ";", " ", "}">>), Text(<<"i", "n", "t", " ", "m", "a", "i", "n", "(", ")", " ", "{", " ", "r", "e", "t",   "u", "r", "n", " ", "a", "[", "1", ";", " ", "}">>),
      Text(<<"i", "n", "t", " ", "m", "a", "i", "n", "(", ")", " ", "{", " ", "r", "e", "t",   "u", "r", "n", " ", "f", "(", "1", ";", " ", "}">>), Text(<<"i", "n", "t", " ", "m", "a", "i", "n", "(", ")", " ", "{", " ", "r", "e", "t",   "u", "r", "n", " ", "a", " ", "?", " ", "b", ";", " ", "}">>),
      Text(<<"i", "n", "t", " ", "m", "a", "i", "n", "(", ")", " ", "{", " ", "r", "e", "t",   "u", "r", "n", " ", ";", " ">>), Text(<<"i", "n", "t", " ", "m", "a", "i", "n", "(", ")", " ", "{", " ", "i", "n", "t",   " ", "5", ";", " ", "}">>), Text(<<"i", "n", "t", " ", "m", "a", "i", "n", "(", ")", " ", "{", " ", "i", "n", "t",   " ", "x", " ", "}">>),
      Text(<<"i", "n", "t", " ", "m", "a", "i", "n", "(", ")", " ", "{", " ", "{", " ", "i",   "n", "t", " ", "5", ";", " ", "}", " ", "}">>), Text(<<"i", "n", "t", " ", "x", ",", " ", "5", ";">>), Text(<<"i", "n", "t", " ", "x">>), Text(<<"i", "n", "t", " ", "x", " ", "y", ";">>), Text(<<"5">>), Text(<<"x">>),
      Text(<<"e", "n", "u", "m", " ", "{", " ", "5", " ", "}", ";">>), Text(<<"e", "n", "u", "m", " ", "{", " ", "A", " ", "=", " ", "b", " ", "}", ";">>), Text(<<"e", "n", "u", "m", " ", "{", " ", "A", " ", "=", " ", "1", " ", "+", " ", "2",   " ", "}", ";">>), Text(<<"e", "n", "u", "m", " ", "{", " ", "A", " ">>),
      Text(<<"e", "n", "u", "m", " ", "{", " ", "A", " ", "}">>), Text(<<"e", "n", "u", "m", " ", "A", " ", "{", " ", "B", " ", "}", ";">>), Text(<<"i", "n", "t", " ", "m", "a", "i", "n", "(", ")", " ", "{", " ", "r", "e", "t",   "u", "r", "n", " ", "@", ";", " ", "}">>),
      Text(<<"i", "n", "t", " ", "m", "a", "i", "n", "(", ")", " ", "{", " ", "r", "e", "t",   "u", "r", "n", " ", "0", "x", ";", " ", "}">>), Text(<<"@">>) }
ItemTexts ==
    { << >>, Text(<<"i", "n", "t", " ", "x", ";">>), Text(<<"c", "h", "a", "r", " ", "*", "s", ",", " ", "t", ";">>), Text(<<"v", "o", "i", "d", " ", "*", "*", "v", ";">>), Text(<<"e", "n", "u", "m", " ", "{", " ", "A", " ", "}", ";">>), Text(<<"e", "n", "u", "m", " ", "{", " ", "A", ",", " ", "B", " ", "=", " ", "2", ",",   " ", "}", ";">>),
      Text(<<"e", "n", "u", "m", " ", "{", " ", "}", ";">>), Text(<<"i", "n", "t", " ", "f", "(", "i", "n", "t", " ", "a", ",", " ", "c", "h", "a",   "r", " ", "*", "b", ")", " ", "{", " ", "i", "n", "t", " ", "x", ",", " ", "y",   ";", " ", "c", "h", "a", "r", " ", "c", ";", " ", "x", " ", "=", " ", "a", ";",   " ", "r", "e", "t", "u", "r", "n", " ", "x", ";", " ", "}">>),
      Text(<<"v", "o", "i", "d", " ", "g", "(", ")", " ", "{", " ", "}", " ", "i", "n", "t",   " ", "h", "(", ")", " ", "{", " ", "r", "e", "t", "u", "r", "n", " ", "g", "(",   ")", ";", " ", "}">>),
      Text(<<"i", "n", "t", " ", "m", "a", "i", "n", "(", ")", " ", "{", " ", "i", "f", " ",   "(", "a", ")", " ", "r", "e", "t", "u", "r", "n", " ", "1", ";", " ", "e", "l",   "s", "e", " ", "r", "e", "t", "u", "r", "n", " ", "2", ";", " ", "}">>),
      Text(<<"i", "n", "t", " ", "m", "a", "i", "n", "(", ")", " ", "{", " ", "i", "f", " ",   "(", "a", ")", " ", "i", "f", " ", "(", "b", ")", " ", "x", " ", "=", " ", "1",   ";", " ", "e", "l", "s", "e", " ", "x", " ", "=", " ", "2", ";", " ", "}">>),
      Text(<<"i", "n", "t", " ", "m", "a", "i", "n", "(", ")", " ", "{", " ", "w", "h", "i",   "l", "e", " ", "(", "a", ")", " ", "a", " ", "=", " ", "a", " ", "-", " ", "1",   ";", " ", "r", "e", "t", "u", "r", "n", " ", "a", ";", " ", "}">>) }

ParseSources ==
    ParserTestTexts \cup TwoOpTexts \cup TernaryHeadTexts \cup TernaryTailTexts
    \cup PostfixTexts \cup PrefixTexts \cup CastTexts \cup DeclTexts \cup ErrorTexts
    \cup ItemTexts

\* The text handed to Parser::new; the machine and the chunk are not used.
ParseInit ==
    /\ input \in {[kind |-> "text", src |-> src] : src \in ParseSources}
    /\ parser = NoParser
    /\ parsed = NotParsed
    /\ lexer = Lexer_new(<< >>)
    /\ tokens = << >>
    /\ profile = "debug"
    /\ status = "init"
    /\ panicMsg = ""
    /\ code = << >>
    /\ pc = 0
    /\ acc = 0
    /\ stack = << >>
    /\ result = << >>
    /\ last = NoLast
    /\ hits = NoHits(<< >>)
    /\ chunk = Chunk_default
    /\ pushed = NoPush

ResultOf(r) == IF r.ok THEN [tag |-> "Ok", v |-> r.v] ELSE [tag |-> "Err", err |-> r.err]

\* Parser::new(src): the lexer is created and the first token is read.
ParserNew ==
    /\ input.kind = "text"
    /\ parser = NoParser
    /\ parsed = NotParsed
    /\ \E r \in {Parser_new(input.src)} :
          /\ parser' = r.p
          /\ parsed' = IF r.ok THEN parsed ELSE ResultOf(r)
    /\ UNCHANGED <<input, profile, status, panicMsg, code, pc, acc, stack, result, last, hits,
                   lexer, tokens, chunk, pushed>>

\* p.parse_program() on the parser Parser::new returned.
ParseProgram ==
    /\ parser # NoParser
    /\ parsed = NotParsed
    /\ \E r \in {parse_program(parser)} :
          /\ parser' = r.p
          /\ parsed' = ResultOf(r)
    /\ UNCHANGED <<input, profile, status, panicMsg, code, pc, acc, stack, result, last, hits,
                   lexer, tokens, chunk, pushed>>

ParseNext == ParserNew \/ ParseProgram

ParseSpec == ParseInit /\ [][ParseNext]_vars



(***************************************************************************)
(* A Chunk built by calls of its four push methods, as the tests of        *)
(* src/tests/bytecode_tests.rs build it.                                   *)
(***************************************************************************)
MaxChunk == 3
ChunkOps == {"ADD", "PSH", "IMM", "JMP", "JSR"}
ChunkVals == {I64Of(42), I64Of(-1)}
ChunkTargets == {0, 10}

ChunkInit ==
    /\ chunk = Chunk_default
    /\ pushed = NoPush
    /\ input = [kind |-> "none"]
    /\ parser = NoParser
    /\ parsed = NotParsed
    /\ lexer = Lexer_new(<< >>)
    /\ tokens = << >>
    /\ profile = "debug"
    /\ status = "init"
    /\ panicMsg = ""
    /\ code = << >>
    /\ pc = 0
    /\ acc = 0
    /\ stack = << >>
    /\ result = << >>
    /\ last = NoLast
    /\ hits = NoHits(<< >>)

MachineIdle ==
    UNCHANGED <<input, profile, status, panicMsg, code, pc, acc, stack, result, last, hits,
                lexer, tokens, parser, parsed>>
Push(op) ==
    /\ Len(chunk.code) < MaxChunk
    /\ chunk' = Chunk_push(chunk, op)
    /\ pushed' = [fn |-> "push", op |-> op, before |-> chunk.code]
    /\ MachineIdle
PushInt(op, val) ==
    /\ Len(chunk.code) < MaxChunk
    /\ chunk' = Chunk_push_int(chunk, op, val)
    /\ pushed' = [fn |-> "push_int", op |-> op, arg |-> val, before |-> chunk.code]
    /\ MachineIdle
PushJump(op, target) ==
    /\ Len(chunk.code) < MaxChunk
    /\ chunk' = Chunk_push_jump(chunk, op, target)
    /\ pushed' = [fn |-> "push_jump", op |-> op, arg |-> target, before |-> chunk.code]
    /\ MachineIdle
PushCall(op, target) ==
    /\ Len(chunk.code) < MaxChunk
    /\ chunk' = Chunk_push_call(chunk, op, target)
    /\ pushed' = [fn |-> "push_call", op |-> op, arg |-> target, before |-> chunk.code]
    /\ MachineIdle

ChunkNext ==
    \/ \E op \in ChunkOps : Push(op)
    \/ \E op \in ChunkOps, val \in ChunkVals : PushInt(op, val)
    \/ \E op \in ChunkOps, target \in ChunkTargets : PushJump(op, target)
    \/ \E op \in ChunkOps, target \in ChunkTargets : PushCall(op, target)

ChunkSpec == ChunkInit /\ [][ChunkNext]_vars


(***************************************************************************)
(* What the claims speak of: the meaning of `left OP right` on cells, the  *)
(* value of an expression, and the instruction that has just run.          *)
(***************************************************************************)
Defined(v) == [def |-> TRUE, v |-> v]
Undefined == [def |-> FALSE, v |-> 0]

\* left OP right, where it has a value that fits a cell
Meaning(op, l, r) ==
    CASE op = "Add" -> IF AddFits(l, r) THEN Defined(l + r) ELSE Undefined
      [] op = "Sub" -> IF SubFits(l, r) THEN Defined(l - r) ELSE Undefined
      [] op = "Mul" -> IF MulFits(l, r) THEN Defined(l * r) ELSE Undefined
      [] op = "Div" -> IF DivFits(l, r) THEN Defined(TruncDiv(l, r)) ELSE Undefined
      [] op = "Mod" -> IF DivFits(l, r) THEN Defined(TruncRem(l, r)) ELSE Undefined
      [] op = "Eq"  -> Defined(IF l = r THEN 1 ELSE 0)
      [] op = "Ne"  -> Defined(IF l = r THEN 0 ELSE 1)
      [] op = "Lt"  -> Defined(IF l < r THEN 1 ELSE 0)
      [] op = "Le"  -> Defined(IF r < l THEN 0 ELSE 1)
      [] op = "Gt"  -> Defined(IF r < l THEN 1 ELSE 0)
      [] op = "Ge"  -> Defined(IF l < r THEN 0 ELSE 1)
      [] op = "And" -> Defined(Bitwise("And", l, r))
      [] op = "Or"  -> Defined(Bitwise("Or", l, r))
      [] op = "Xor" -> Defined(Bitwise("Xor", l, r))
      [] op = "Shl" ->
            IF r < 0 \/ r >= I32Bits THEN Undefined
            ELSE IF r = I32Bits - 1
                 THEN (IF l = 0 THEN Defined(0)
                       ELSE IF l = -1 THEN Defined(I32Min) ELSE Undefined)
                 ELSE IF MulFits(l, 2 ^ r) THEN Defined(l * (2 ^ r)) ELSE Undefined
      [] op = "Shr" ->
            IF r < 0 \/ r >= I32Bits THEN Undefined
            ELSE IF r = I32Bits - 1 THEN Defined(IF l < 0 THEN -1 ELSE 0)
                 ELSE Defined(l \div (2 ^ r))

\* The C operator an AST BinOp stands for, as an instruction name.
OperatorOf(op) ==
    CASE op = "BitAnd" -> "And" [] op = "BitOr" -> "Or" [] OTHER -> op

\* A literal that is the same number as an i32.
LitFits(n) == (n.hi = 0 /\ n.lo >= 0) \/ (n.hi = -1 /\ n.lo < 0)

\* The value of an expression of literals and binary operators, every node
\* evaluated as left OP right.
RECURSIVE ValueOf(_)
ValueOf(e) ==
    CASE e.tag = "Num" -> IF LitFits(e.n) THEN Defined(e.n.lo) ELSE Undefined
      [] e.tag = "Binary" /\ e.op \in AllBinOps ->
            LET l == ValueOf(e.left)
                r == ValueOf(e.right)
            IN IF l.def /\ r.def THEN Meaning(OperatorOf(e.op), l.v, r.v) ELSE Undefined
      [] OTHER -> Undefined

Terminal == status \in {"returned", "panic"}
Ran(ops) == last.opcode \in ops
\* the cell the last instruction found on top of the stack
LastTop == last.stack[Len(last.stack)]

\* C1: a binary instruction run on a non-empty stack pops exactly one cell L,
\* and where L OP A has a value the accumulator becomes L OP A, with L the
\* popped cell and A the accumulator before the step.
C1_BinaryOperandOrder ==
    (Ran(BinaryOps) /\ last.stack # << >>) =>
        /\ stack = SubSeq(last.stack, 1, Len(last.stack) - 1)
        /\ Meaning(last.opcode, LastTop, last.acc).def =>
              /\ status # "panic"
              /\ acc = Meaning(last.opcode, LastTop, last.acc).v
\* Imm 10, Push, Imm 3, Sub has left 7.
C1_Witness ==
    /\ input.kind = "chunk"
    /\ last.opcode = "Sub" /\ last.stack = <<10>> /\ last.acc = 3 /\ acc = 7

\* The 64-bit sum of two i64 values: the low words are added as unsigned
\* numbers and the carry goes to the high words.
I64Add(a, b) ==
    LET lo == LoU(a.lo) + LoU(b.lo)
        hi == HiU(a.lo) + HiU(b.lo) + (lo \div Base16)
    IN I64(a.hi + b.hi + (hi \div Base16), FromHalves(hi % Base16, lo % Base16))
\* The value of an expression of literals and binary operators as an i64,
\* every literal being the number it denotes and every node left OP right.
\* A node has no value when it divides by zero or shifts by an amount that is
\* no bit position; of the operators only + is evaluated on numbers outside
\* the i32 range.
RECURSIVE ExactValueOf(_)
ExactValueOf(e) ==
    CASE e.tag = "Num" -> Defined(e.n)
      [] e.tag = "Binary" /\ e.op \in AllBinOps ->
            LET l == ExactValueOf(e.left)
                r == ExactValueOf(e.right)
            IN IF ~(l.def /\ r.def) THEN Undefined
               ELSE IF LitFits(l.v) /\ LitFits(r.v)
                    THEN (IF Meaning(OperatorOf(e.op), l.v.lo, r.v.lo).def
                          THEN Defined(I64Of(Meaning(OperatorOf(e.op), l.v.lo, r.v.lo).v))
                          ELSE Undefined)
               ELSE IF e.op = "Add" THEN Defined(I64Add(l.v, r.v))
               ELSE Undefined
      [] OTHER -> Undefined

\* C2: a program `main() { return e; }` with e built from integer literals
\* and the binary operators, no node dividing by zero, returns the value of e
\* evaluated as left OP right at every node, whatever the size of a literal.
IsReturnProg == input.kind = "ast" /\ input.program \in ReturnProgs
ReturnedExpr == input.program.items[1].body[1].expr[1]
C2_ReturnValue ==
    (IsReturnProg /\ ExactValueOf(ReturnedExpr).def) =>
        /\ status # "panic"
        /\ Terminal => I64Of(result[1]) = ExactValueOf(ReturnedExpr).v

\* C3: after a comparison instruction has run on a popped cell L and the
\* accumulator A, the accumulator is 1 when L OP A holds and 0 otherwise.
Holds(op, l, r) ==
    CASE op = "Eq" -> l = r [] op = "Ne" -> l # r
      [] op = "Lt" -> l < r [] op = "Le" -> l <= r
      [] op = "Gt" -> l > r [] op = "Ge" -> l >= r
C3_ComparisonIsZeroOrOne ==
    (Ran(CompareOps) /\ last.stack # << >>) =>
        /\ status # "panic"
        /\ acc \in {0, 1}
        /\ acc = 1 <=> Holds(last.opcode, LastTop, last.acc)
\* 10 < 20 style: a true and a false comparison of unequal cells have run.
C3_Witness ==
    /\ Ran({"Lt"}) /\ last.stack = <<-7>> /\ last.acc = 3 /\ acc = 1


HasMain(program) ==
    \E k \in DOMAIN program.items :
        program.items[k].tag = "Function" /\ program.items[k].name = "main"

\* C4: the bytecode compile returns for a program that defines main begins
\* with call-subroutine to main's entry at index 0 and exit at index 1, and
\* main's body starts at a later index.
C4_EntrySequence ==
    (input.kind = "ast" /\ HasMain(input.program) /\ status = "running") =>
        /\ Len(code) >= 3
        /\ code[1].opcode = "JSR"
        /\ code[1].operand # << >>
        /\ code[1].operand[1] >= 2
        /\ code[2].opcode = "Exit"

\* C5: call-subroutine at index i jumps to its target, the matching
\* leave-frame resumes at i + 1 with the accumulator unchanged, so that
\* [JSR 2, EXIT, IMM v, LEV] returns v.
IsCallChunk == input.kind = "chunk" /\ input.chunk \in {CallChunk(v) : v \in {0, 42}}
C5_CallAndReturn ==
    /\ (Ran({"JSR"}) /\ last.operand # << >>) =>
          (status # "panic" /\ pc = last.operand[1] /\ acc = last.acc)
    /\ (IsCallChunk /\ Terminal) =>
          (status = "returned" /\ result = input.chunk[3].operand)

\* C6: in a frame of n locals, a value v stored to slot i < n and loaded
\* back from the same frame-relative address is in the accumulator, so that
\* JSR -> [ENT n, IMM v, PSH, LEA i, SI, LEA i, LI, LEV], EXIT returns v.
IsFrameChunk ==
    /\ input.kind = "chunk"
    /\ input.chunk \in {FrameChunk(n, i, v) : n \in 1 .. MaxLit, i \in 0 .. MaxLit - 1, v \in {99, 123}}
C6_FrameRoundTrip ==
    (IsFrameChunk /\ input.chunk[6].operand[1] < input.chunk[3].operand[1] /\ Terminal) =>
        (status = "returned" /\ result = input.chunk[4].operand)

\* C7: a popping instruction met with an empty operand stack ends the run
\* in a fault: run returns no result, the accumulator and the stack are as
\* they were, and no further instruction is executed.
C7_UnderflowIsFatal ==
    (Ran(BinaryOps) /\ last.stack = << >>) =>
        /\ status = "panic"
        /\ panicMsg = "Stack underflow"
        /\ result = << >>
        /\ acc = last.acc
        /\ stack = << >>
        /\ \A p \in DOMAIN hits : p > last.pc => hits[p] = 0
        /\ ~ENABLED Next
\* Imm 5, Sub with nothing pushed has faulted.
C7_Witness ==
    /\ input.kind = "chunk" /\ input.chunk = UnderflowChunk("Sub", 5)
    /\ Ran({"Sub"}) /\ last.stack = << >> /\ last.acc = 5
    /\ status = "panic"

\* C8: the operand stack never holds more than its fixed capacity of 1024
\* cells; a push on a full stack is a fault and does not grow it.
C8_StackCapacity ==
    /\ Len(stack) <= StackCap
    /\ (Ran({"Push"}) /\ Len(last.stack) = StackCap) => status = "panic"

\* The layout of `pre if (c) S1 [else S2] return 8;` in the code: the
\* condition, the branch, S1, then the jump and S2 when there is an else.
CodeLen(c) == Len(c.code)
MainBody == input.program.items[1].body
IsIfProg == input.kind = "ast" /\ input.program \in IfProgs
TheIf == MainBody[Len(MainBody) - 1]
PreLen == CodeLen(compile_block(SubSeq(MainBody, 1, Len(MainBody) - 2), NewCode))
IfJz == PreLen + CodeLen(compile_expr(TheIf.cond, NewCode))
ThenLen == CodeLen(compile_stmt(TheIf.then_branch, NewCode))
ThenPcs == (IfJz + 1) .. (IfJz + ThenLen)
HasElse == TheIf.else_branch # << >>
ElseLen == IF HasElse THEN CodeLen(compile_stmt(TheIf.else_branch[1], NewCode)) ELSE 0
ElseStart == IfJz + ThenLen + 2
ElsePcs == IF HasElse THEN ElseStart .. (ElseStart + ElseLen - 1) ELSE {}
AfterThen == IfJz + ThenLen + 1

\* C9: a false condition runs no instruction of S1 and runs S2, or, with no
\* else, continues right after S1; a true condition runs S1 and no
\* instruction of S2.  Branch-if-zero goes to its target exactly when the
\* accumulator is 0 and otherwise to the next instruction.
C9_IfBranches ==
    /\ (IsIfProg /\ status # "init") =>
          /\ status # "panic"
          /\ ValueOf(TheIf.cond).def
          /\ ValueOf(TheIf.cond).v = 0 =>
                /\ \A p \in ThenPcs : hits[p] = 0
                /\ (HasElse /\ Terminal /\ ElseLen > 0) => hits[ElseStart] = 1
                /\ (~HasElse /\ last.pc = IfJz /\ Ran({"Jz"})) => pc = AfterThen
                /\ (~HasElse /\ Terminal) => hits[AfterThen] = 1
          /\ ValueOf(TheIf.cond).v # 0 =>
                /\ (Terminal /\ ThenLen > 0) => hits[IfJz + 1] = 1
                /\ \A p \in ElsePcs : hits[p] = 0
    /\ (Ran({"Jz"}) /\ last.operand # << >> /\ last.operand[1] >= 0) =>
          /\ status # "panic"
          /\ pc = IF last.acc = 0 THEN last.operand[1] ELSE last.pc + 1
\* A false condition with both branches present has run the else branch
\* and skipped the then branch.
C9_Witness ==
    /\ IsIfProg /\ Terminal
    /\ ValueOf(TheIf.cond).v = 0
    /\ HasElse /\ ThenLen > 0 /\ ElseLen > 0
    /\ hits[ElseStart] = 1 /\ hits[IfJz + 1] = 0

\* The layout of `pre while (c) B return 8;`.
IsWhileProg == input.kind = "ast" /\ input.program \in WhileProgs
IsCountdown == input.kind = "ast" /\ input.program \in CountdownProgs
TheWhile == MainBody[Len(MainBody) - 1]
WhileJz == PreLen + CodeLen(compile_expr(TheWhile.cond, NewCode))
BodyLen == CodeLen(compile_stmt(TheWhile.body, NewCode))
BodyPcs == (WhileJz + 1) .. (WhileJz + BodyLen)
BackJump == WhileJz + BodyLen + 1
AfterLoop == BackJump + 1
CountFrom == MainBody[1].expr.right.n.lo

\* The condition is evaluated before every iteration, and a condition that
\* is 0 at first runs no instruction of B and continues after the loop.
WhileGuardsBody ==
    (IsWhileProg /\ status # "init") =>
        /\ status # "panic"
        /\ \A p \in BodyPcs : hits[p] <= hits[WhileJz]
        /\ ValueOf(TheWhile.cond).v = 0 =>
              /\ \A p \in BodyPcs \cup {BackJump} : hits[p] = 0
              /\ Terminal => hits[AfterLoop] = 1
\* C10: WhileGuardsBody, and a loop that counts a value down from n to 0
\* runs B exactly n times and then exits.
C10_WhileLoop ==
    /\ WhileGuardsBody
    /\ (IsCountdown /\ status # "init") =>
          /\ status # "panic"
          /\ Terminal =>
                /\ status = "returned"
                /\ \E p \in DOMAIN hits : code[p + 1].opcode = "Jmp" /\ hits[p] = CountFrom


(***************************************************************************)
(* Code generation: unsupported forms, calls and expression statements.    *)
(***************************************************************************)
\* Whether an expression, a statement or a program contains a form that
\* compile_expr has no code for.
RECURSIVE UnsupportedIn(_)
UnsupportedIn(e) ==
    CASE e.tag = "Num" -> FALSE
      [] e.tag = "Unary" -> e.op \notin {"Neg", "Not"} \/ UnsupportedIn(e.expr)
      [] e.tag = "Binary" ->
            \/ BinOpCode(e.op) = "unimplemented"
            \/ UnsupportedIn(e.left) \/ UnsupportedIn(e.right)
      [] e.tag = "Conditional" ->
            UnsupportedIn(e.cond) \/ UnsupportedIn(e.then_expr) \/ UnsupportedIn(e.else_expr)
      [] e.tag = "Call" ->
            \/ e.callee.tag # "Var"
            \/ e.callee.name # "printf"
            \/ \E i \in 1 .. Len(e.args) : UnsupportedIn(e.args[i])
      [] OTHER -> TRUE
RECURSIVE UnsupportedInStmt(_)
UnsupportedInStmt(s) ==
    CASE s.tag = "Expr" -> UnsupportedIn(s.expr)
      [] s.tag = "Return" -> s.expr # << >> /\ UnsupportedIn(s.expr[1])
      [] s.tag = "Block" -> \E i \in 1 .. Len(s.stmts) : UnsupportedInStmt(s.stmts[i])
      [] s.tag = "If" ->
            \/ UnsupportedIn(s.cond) \/ UnsupportedInStmt(s.then_branch)
            \/ (s.else_branch # << >> /\ UnsupportedInStmt(s.else_branch[1]))
      [] s.tag = "While" -> UnsupportedIn(s.cond) \/ UnsupportedInStmt(s.body)
      [] OTHER -> FALSE
UnsupportedInProgram(p) ==
    \E k \in 1 .. Len(p.items) :
        /\ p.items[k].tag = "Function"
        /\ \E i \in 1 .. Len(p.items[k].body) : UnsupportedInStmt(p.items[k].body[i])

\* C11: compile applied to a program that contains an unsupported form
\* returns an error to its caller (it does not panic) and returns no
\* bytecode.
C11_UnsupportedIsError ==
    (input.kind = "ast" /\ UnsupportedInProgram(input.program) /\ status # "init") =>
        /\ status = "error"
        /\ code = << >>

\* The code of a1, Push, .., ak, Push appended to c, in source order.
RECURSIVE ArgsInOrder(_, _, _)
ArgsInOrder(args, k, c) ==
    IF k > Len(args) THEN c
    ELSE ArgsInOrder(args, k + 1, Emit(compile_expr(args[k], c), Instruction_new("Push")))
IsCallProg == input.kind = "ast" /\ input.program \in CallProgs
TheArgs == MainBody[1].expr.args
ArgsLen == CodeLen(ArgsInOrder(TheArgs, 1, NewCode))

\* C12: the code of a call with arguments a1..ak is the code of a1, Push,
\* .., the code of ak, Push, in that order, and then the call instruction.
C12_ArgumentsInSourceOrder ==
    (IsCallProg /\ status # "init") =>
        /\ status # "panic"
        /\ Len(code) > ArgsLen
        /\ SubSeq(code, 1, ArgsLen) = ArgsInOrder(TheArgs, 1, NewCode).code
        /\ code[ArgsLen + 1].opcode \in {"Printf", "JSR"}

\* C13: in `e; return k;` with e supported, the stack after the code of e
\* is what it was before it (empty), and the program returns k.
IsExprStmtProg == input.kind = "ast" /\ input.program \in ExprStmtProgs
StmtLen == CodeLen(compile_expr(MainBody[1].expr, NewCode))
C13_ExprStmtKeepsStack ==
    (IsExprStmtProg /\ status # "init") =>
        /\ status # "panic"
        /\ pc >= StmtLen => stack = << >>
        /\ Terminal => result = << MainBody[2].expr[1].n.lo >>

\* C14: `main() { return n; }` returns exactly the 64-bit literal n.
C14_Int64Cells ==
    (IsReturnProg /\ ReturnedExpr.tag = "Num" /\ status # "init") =>
        /\ status # "panic"
        /\ Terminal => I64Of(result[1]) = ReturnedExpr.n

(***************************************************************************)
(* The lexer.  Source is the text under the lexer, Calls the indices of    *)
(* the next_token calls made so far, and StartsWith(i, c) says that call i *)
(* found the character c where its token starts.                           *)
(***************************************************************************)
Source == lexer.input
Calls == 1 .. Len(tokens)
StartsWith(i, c) == tokens[i].idx < Len(Source) /\ Source[tokens[i].idx + 1] = c

\* C15: the position never moves backwards, a call that returns an error
\* or a token other than Eof advances it by at least one character, and
\* after a call has returned Eof every later call returns Eof.
C15_MonotoneAndEofSticky ==
    /\ lexer.iter <= Len(Source)
    /\ \A i \in Calls :
          /\ tokens[i].from <= tokens[i].to
          /\ tokens[i].to = (IF i < Len(tokens) THEN tokens[i + 1].from ELSE lexer.iter)
          /\ ~IsEof(tokens[i]) => tokens[i].to >= tokens[i].from + 1
          /\ (IsEof(tokens[i]) /\ i < Len(tokens)) => IsEof(tokens[i + 1])
\* `@+`: an error, a token, and then Eof twice.
C15_Witness ==
    /\ Source = Text(<<"@", "+">>)
    /\ Len(tokens) = 4
    /\ ~tokens[1].res.ok /\ tokens[1].to = 1
    /\ tokens[2].res = Ok(Token("Plus")) /\ tokens[2].to = 2
    /\ IsEof(tokens[3]) /\ IsEof(tokens[4])

\* Where a token starts according to the claim: after whitespace, after
\* `//` comments through the end of their line, and after lines that begin
\* with `#` (nothing but whitespace between the line's start and the `#`).
AtLineStart(src, p) ==
    \A j \in 1 .. p : (\A k \in j .. p : src[k] # Code["\n"]) => src[j] \in Whitespace
RECURSIVE TokenStart(_, _)
TokenStart(src, p) ==
    IF p >= Len(src) THEN p
    ELSE IF src[p + 1] \in Whitespace THEN TokenStart(src, p + 1)
    ELSE IF src[p + 1] = Code["/"] /\ p + 1 < Len(src) /\ src[p + 2] = Code["/"]
         THEN TokenStart(src, SkipLine(src, p + 2))
    ELSE IF src[p + 1] = Code["#"] /\ AtLineStart(src, p)
         THEN TokenStart(src, SkipLine(src, p + 1))
    ELSE p

\* C16: every token starts where the skipping of whitespace, comments and
\* lines beginning with `#` ends; a `#` later in a line hides nothing; and
\* a `/` not followed by `/` is the Slash token.
C16_SkippedText ==
    \A i \in Calls :
        /\ tokens[i].idx = TokenStart(Source, tokens[i].from)
        /\ StartsWith(i, Code["/"]) => tokens[i].res = Ok(Token("Slash"))

\* The numeric literals the claim speaks of, when the whole text is one:
\* 0x / 0X and hexadecimal digits, 0 and octal digits, a bare 0, or decimal
\* digits that do not start with 0.
AllIn(src, k, class) == \A j \in k .. Len(src) : src[j] \in class
IsHexLiteral(src) ==
    Len(src) >= 3 /\ src[1] = Code["0"] /\ src[2] \in {Code["x"], Code["X"]} /\ AllIn(src, 3, HexDigits)
IsOctLiteral(src) == Len(src) >= 2 /\ src[1] = Code["0"] /\ AllIn(src, 2, OctDigits)
IsDecLiteral(src) == Len(src) >= 1 /\ src[1] \in Digits \ {Code["0"]} /\ AllIn(src, 2, Digits)
IsLiteral(src) ==
    src = Text(<<"0">>) \/ IsHexLiteral(src) \/ IsOctLiteral(src) \/ IsDecLiteral(src)
\* The digits src[k ..] read in a base, most significant first
RECURSIVE ValueIn(_, _, _, _)
ValueIn(src, k, base, v) ==
    IF k > Len(src) THEN v
    ELSE ValueIn(src, k + 1, base, v * base + ToDigit(src[k], 16)[1])
LiteralValue(src) ==
    IF IsHexLiteral(src) THEN ValueIn(src, 3, 16, 0)
    ELSE IF IsOctLiteral(src) THEN ValueIn(src, 2, 8, 0)
    ELSE ValueIn(src, 1, 10, 0)
\* Seven digits in any base stay below 2^31.
MaxDigits == 7

\* C17: a text that is one numeric literal lexes to one Num token holding
\* the literal's value in the base its prefix chooses.
C17_NumericLiterals ==
    (Len(tokens) >= 1 /\ IsLiteral(Source) /\ Len(Source) <= MaxDigits) =>
        /\ tokens[1].res = Ok(Token_Num(I64Of(LiteralValue(Source))))
        /\ tokens[1].to = Len(Source)

\* C18: on a text that starts with 0x or 0X and a hexadecimal digit, the
\* first next_token call returns an error.
HexPrefixed(src) ==
    Len(src) >= 3 /\ src[1] = Code["0"] /\ src[2] \in {Code["x"], Code["X"]} /\ src[3] \in HexDigits
C18_HexIsError ==
    (Len(tokens) >= 1 /\ HexPrefixed(Source)) => ~tokens[1].res.ok
\* 0x1A3F has been refused.
C18_Witness ==
    /\ Source = Text(<<"0", "x", "1", "A", "3", "F">>)
    /\ Len(tokens) >= 1
    /\ tokens[1].res = Err("invalid digit found in string")

\* A string literal whose opening quote is character q of the text: the
\* character its closing quote is (the first quote after q that no
\* backslash escapes; Len + 1 if there is none), and the text between.
RECURSIVE ClosingQuote(_, _)
ClosingQuote(src, k) ==
    IF k > Len(src) THEN Len(src) + 1
    ELSE IF src[k] = Code["\\"] THEN ClosingQuote(src, k + 2)
    ELSE IF src[k] = Code["\""] THEN k
    ELSE ClosingQuote(src, k + 1)
RECURSIVE TextBetween(_, _, _)
TextBetween(src, k, close) ==
    IF k >= close \/ k > Len(src) THEN << >>
    ELSE IF src[k] = Code["\\"]
         THEN IF k + 1 > Len(src) THEN << >>
              ELSE <<IF src[k + 1] = Code["n"] THEN Code["\n"] ELSE src[k + 1]>>
                   \o TextBetween(src, k + 2, close)
    ELSE <<src[k]>> \o TextBetween(src, k + 1, close)
Unterminated(src, q) == ClosingQuote(src, q + 1) > Len(src)

\* C19: a call that finds a string literal returns Str with the text
\* between the quotes, escapes replaced; without a closing quote it returns
\* Str with the text up to the end of input, and the next call returns Eof.
C19_StringLiterals ==
    \A i \in Calls :
        StartsWith(i, Code["\""]) =>
            LET q == tokens[i].idx + 1
            IN /\ tokens[i].res = Ok(Token_Str(TextBetween(Source, q + 1, ClosingQuote(Source, q + 1))))
               /\ tokens[i].to = IF Unterminated(Source, q) THEN Len(Source)
                                 ELSE ClosingQuote(Source, q + 1)
               /\ (Unterminated(Source, q) /\ i < Len(tokens)) => IsEof(tokens[i + 1])
\* `"a\n` without a closing quote has given Str of a and a newline, then Eof.
C19_Witness ==
    /\ Source = Text(<<"\"", "a", "\\", "n">>)
    /\ Len(tokens) = 2
    /\ tokens[1].res = Ok(Token_Str(Text(<<"a", "\n">>)))
    /\ IsEof(tokens[2])

\* C20: a call that finds a character literal with its character present
\* returns Num of the character's code point, an escaped n being a newline
\* and any other escaped character itself; and no call returns Token::Char.
NewlineCode == 10
C20_CharLiterals ==
    \A i \in Calls :
        /\ tokens[i].res.ok => tokens[i].res.tok.tag # "Char"
        /\ StartsWith(i, Code["'"]) =>
              LET q == tokens[i].idx + 1
                  escaped == q + 1 <= Len(Source) /\ Source[q + 1] = Code["\\"]
                  at == IF escaped THEN q + 2 ELSE q + 1
              IN at <= Len(Source) =>
                    /\ tokens[i].res.ok
                    /\ tokens[i].res.tok.tag = "Num"
                    /\ tokens[i].res.tok.val =
                          [hi |-> 0, lo |-> IF escaped /\ Source[at] = Code["n"] THEN NewlineCode
                                            ELSE Source[at]]
\* 'a' has given Num(97) and '\n' has given Num(10).
C20_Witness ==
    /\ Source = Text(<<"'", "a", "'", " ", "'", "\\", "n", "'", " ", "'", "\\", "'", "'">>)
    /\ Len(tokens) >= 2
    /\ tokens[1].res = Ok(Token_Num(I64Of(97)))
    /\ tokens[2].res = Ok(Token_Num(I64Of(NewlineCode)))

(***************************************************************************)
(* The parser's claims.  They speak of the program parse_program returns   *)
(* for a text: here the expression of the return statement of m.           *)
(***************************************************************************)
ParseDone == input.kind = "text" /\ parsed # NotParsed
ParsedOk == ParseDone /\ parsed.tag = "Ok"
Returns(e) ==
    /\ ParsedOk
    /\ Len(parsed.v.items) = 1
    /\ parsed.v.items[1].tag = "Function"
    /\ Len(parsed.v.items[1].body) >= 1
    /\ parsed.v.items[1].body[1] = Return(<<e>>)
V(c) == Var(<<c>>)

\* The binding strength the chain gives each binary operator, 1 the loosest;
\* the ternary stands between assignment and ||.
Rank(o) ==
    CASE o = Text(<<"=">>) -> 1
      [] o = Text(<<"|", "|">>) -> 3
      [] o = Text(<<"&", "&">>) -> 4
      [] o = Text(<<"|">>) -> 5
      [] o = Text(<<"^">>) -> 6
      [] o = Text(<<"&">>) -> 7
      [] o \in {Text(<<"=", "=">>), Text(<<"!", "=">>)} -> 8
      [] o \in {Text(<<"<">>), Text(<<">">>), Text(<<"<", "=">>), Text(<<">", "=">>)} -> 9
      [] o \in {Text(<<"<", "<">>), Text(<<">", ">">>)} -> 10
      [] o \in {Text(<<"+">>), Text(<<"-">>)} -> 11
      [] o \in {Text(<<"*">>), Text(<<"/">>), Text(<<"%">>)} -> 12
BinOpOf(o) ==
    CASE o = Text(<<"=">>) -> "Assign"
      [] o = Text(<<"|", "|">>) -> "LogOr"
      [] o = Text(<<"&", "&">>) -> "LogAnd"
      [] o = Text(<<"|">>) -> "BitOr"
      [] o = Text(<<"^">>) -> "Xor"
      [] o = Text(<<"&">>) -> "BitAnd"
      [] o = Text(<<"=", "=">>) -> "Eq"
      [] o = Text(<<"!", "=">>) -> "Ne"
      [] o = Text(<<"<">>) -> "Lt"
      [] o = Text(<<">">>) -> "Gt"
      [] o = Text(<<"<", "=">>) -> "Le"
      [] o = Text(<<">", "=">>) -> "Ge"
      [] o = Text(<<"<", "<">>) -> "Shl"
      [] o = Text(<<">", ">">>) -> "Shr"
      [] o = Text(<<"+">>) -> "Add"
      [] o = Text(<<"-">>) -> "Sub"
      [] o = Text(<<"*">>) -> "Mul"
      [] o = Text(<<"/">>) -> "Div"
      [] o = Text(<<"%">>) -> "Mod"
\* o1 keeps its operands against a following o2: it binds tighter, or as
\* tight and to the left (assignment groups to the right).
GroupsLeft(o1, o2) == Rank(o1) > Rank(o2) \/ (Rank(o1) = Rank(o2) /\ o1 # Text(<<"=">>))
TwoOpText(o1, o2) == ReturnText(Text(<<"a", " ">>) \o o1 \o Text(<<" ", "b", " ">>) \o o2 \o Text(<<" ", "c">>))
TwoOpTree(o1, o2) ==
    IF GroupsLeft(o1, o2)
    THEN Binary(BinOpOf(o2), Binary(BinOpOf(o1), V(Code["a"]), V(Code["b"])), V(Code["c"]))
    ELSE Binary(BinOpOf(o1), V(Code["a"]), Binary(BinOpOf(o2), V(Code["b"]), V(Code["c"])))
TernaryHeadText(o) ==
    ReturnText(Text(<<"a", " ">>) \o o \o Text(<<" ", "b", " ", "?", " ", "c", " ", ":", " ", "d">>))
TernaryHeadTree(o) ==
    IF o # Text(<<"=">>)
    THEN Conditional(Binary(BinOpOf(o), V(Code["a"]), V(Code["b"])), V(Code["c"]), V(Code["d"]))
    ELSE Binary(BinOpOf(o), V(Code["a"]), Conditional(V(Code["b"]), V(Code["c"]), V(Code["d"])))

\* C21: operators bind in the order assignment, ternary, ||, &&, |, ^, &,
\* equality, relational, shift, additive, multiplicative: a o1 b o2 c groups
\* by that order, and a o b ? c : d is the Conditional on (a o b) for every
\* binary operator o but assignment, || and && included.
C21_PrecedenceChain ==
    ParseDone =>
        /\ \A o1 \in BinOpLexemes, o2 \in BinOpLexemes :
               input.src = TwoOpText(o1, o2) => Returns(TwoOpTree(o1, o2))
        /\ \A o \in BinOpLexemes :
               input.src = TernaryHeadText(o) => Returns(TernaryHeadTree(o))
\* The part of C21 the parser keeps: the order among the binary operators.
C21_BinaryChain ==
    ParseDone =>
        \A o1 \in BinOpLexemes, o2 \in BinOpLexemes :
            input.src = TwoOpText(o1, o2) => Returns(TwoOpTree(o1, o2))

\* C22: in a ? b : c && d || e the else-branch ends at c: the expression is
\* LogOr(LogAnd(Conditional(a, b, c), d), e).
C22_ElseBranchEndsAtOperand ==
    (ParseDone /\ input.src = TernaryAndLogicalText) =>
        Returns(Binary("LogOr",
                       Binary("LogAnd", Conditional(V(Code["a"]), V(Code["b"]), V(Code["c"])), V(Code["d"])),
                       V(Code["e"])))

\* Texts in which one token stands where Parser::expect or expect_ident
\* requires another: the text, what is required there and what stands there.
Mismatch(src, expected, got) == [src |-> src, expected |-> expected, got |-> got]
Five == Token_Num(I64(0, 5))
TokenMismatches ==
    { Mismatch(Text(<<"i", "n", "t", " ", "m", "a", "i", "n", "(", ")", " ", "r", "e", "t", "u", "r", "n">>), Token("LBrace"), Token("KwReturn")),
      Mismatch(Text(<<"i", "n", "t", " ", "m", "a", "i", "n", "(", ")", " ", "{", " ", "r", "e", "t", "u", "r", "n", " ", "1", " ", "}">>), Token("Semicolon"), Token("RBrace")),
      Mismatch(Text(<<"i", "n", "t", " ", "m", "a", "i", "n", "(", ")", " ", "{", " ", "i", "f", " ", "x", ")", " ", ";", " ", "}">>), Token("LParen"), Token_Ident(Text(<<"x">>))),
      Mismatch(Text(<<"i", "n", "t", " ", "m", "a", "i", "n", "(", ")", " ", "{", " ", "w", "h", "i", "l", "e", " ", "(", "x", " ", ";", " ", "}">>), Token("RParen"), Token("Semicolon")),
      Mismatch(Text(<<"i", "n", "t", " ", "m", "a", "i", "n", "(", ")", " ", "{", " ", "r", "e", "t", "u", "r", "n", " ", "(", "1", ";", " ", "}">>), Token("RParen"), Token("Semicolon")),
      Mismatch(Text(<<"i", "n", "t", " ", "m", "a", "i", "n", "(", ")", " ", "{", " ", "r", "e", "t", "u", "r", "n", " ", "a", "[", "1", ";", " ", "}">>), Token("RBracket"), Token("Semicolon")),
      Mismatch(Text(<<"i", "n", "t", " ", "m", "a", "i", "n", "(", ")", " ", "{", " ", "r", "e", "t", "u", "r", "n", " ", "f", "(", "1", ";", " ", "}">>), Token("RParen"), Token("Semicolon")),
      Mismatch(Text(<<"i", "n", "t", " ", "m", "a", "i", "n", "(", ")", " ", "{", " ", "r", "e", "t", "u", "r", "n", " ", "a", " ", "?", " ", "b", ";", " ", "}">>), Token("Colon"), Token("Semicolon")),
      Mismatch(Text(<<"i", "n", "t", " ", "m", "a", "i", "n", "(", ")", " ", "{", " ", "i", "n", "t", " ", "x", " ", "}">>), Token("Semicolon"), Token("RBrace")),
      Mismatch(Text(<<"i", "n", "t", " ", "x">>), Token("Semicolon"), Token("Eof")),
      Mismatch(Text(<<"i", "n", "t", " ", "x", " ", "y", ";">>), Token("Semicolon"), Token_Ident(Text(<<"y">>))),
      Mismatch(Text(<<"e", "n", "u", "m", " ", "{", " ", "A", " ", "}">>), Token("Semicolon"), Token("Eof")),
      Mismatch(Text(<<"e", "n", "u", "m", " ", "A", " ", "{", " ", "B", " ", "}", ";">>), Token("LBrace"), Token_Ident(Text(<<"A">>))) }
IdentMismatches ==
    { Mismatch(Text(<<"i", "n", "t", " ", "5", ";">>), Token("identifier"), Five),
      Mismatch(Text(<<"i", "n", "t", " ", ";">>), Token("identifier"), Token("Semicolon")),
      Mismatch(Text(<<"i", "n", "t", " ", "m", "a", "i", "n", "(", "i", "n", "t", ")", " ", "{", " ", "}">>), Token("identifier"), Token("RParen")),
      Mismatch(Text(<<"i", "n", "t", " ", "m", "a", "i", "n", "(", ")", " ", "{", " ", "i", "n", "t", " ", "5", ";", " ", "}">>), Token("identifier"), Five),
      Mismatch(Text(<<"i", "n", "t", " ", "m", "a", "i", "n", "(", ")", " ", "{", " ", "{", " ", "i", "n", "t", " ", "5", ";", " ", "}", " ", "}">>), Token("identifier"), Five),
      Mismatch(Text(<<"i", "n", "t", " ", "x", ",", " ", "5", ";">>), Token("identifier"), Five),
      Mismatch(Text(<<"e", "n", "u", "m", " ", "{", " ", "5", " ", "}", ";">>), Token("identifier"), Five) }
Reports(m) == parsed = [tag |-> "Err", err |-> ParseError("expected", m.expected, m.got)]

\* C23: where a required token or identifier is missing, parse_program
\* returns the error naming what was expected and the token found there.
C23_ErrorNamesBothTokens ==
    ParseDone =>
        \A m \in TokenMismatches \cup IdentMismatches : input.src = m.src => Reports(m)
\* The part of C23 that Parser::expect keeps.
C23_ExpectNamesBothTokens ==
    ParseDone => \A m \in TokenMismatches : input.src = m.src => Reports(m)

\* What each statement text of DeclStmts declares and which statement it is,
\* when declarations at the start of a statement sequence are locals.  The
\* texts with a declaration after a statement, or as the body of an if, are
\* not starts of a statement sequence and have no entry.
SetTo(name, n) == ExprStmt(Binary("Assign", V(name), Num(I64(0, n))))
LeadingDecls ==
    { [text |-> Text(<<"i", "n", "t", " ", "x", ";">>), locals |-> << <<Text(<<"x">>), Type("Int")>> >>, stmts |-> << >>],
      [text |-> Text(<<"c", "h", "a", "r", " ", "y", ",", " ", "z", ";">>),
       locals |-> << <<Text(<<"y">>), Type("Char")>>, <<Text(<<"z">>), Type("Char")>> >>, stmts |-> << >>],
      [text |-> Text(<<"i", "n", "t", " ", "*", "p", ";">>), locals |-> << <<Text(<<"p">>), Ptr(Type("Int"))>> >>, stmts |-> << >>] }
PlainStmts ==
    { [text |-> Text(<<"x", " ", "=", " ", "1", ";">>), locals |-> << >>, stmts |-> <<SetTo(Code["x"], 1)>>],
      [text |-> Text(<<";">>), locals |-> << >>, stmts |-> <<Empty>>],
      [text |-> Text(<<"{", " ", "x", " ", "=", " ", "1", ";", " ", "}">>), locals |-> << >>, stmts |-> <<BlockStmt(<<SetTo(Code["x"], 1)>>)>>],
      [text |-> Text(<<"{", " ", "i", "n", "t", " ", "z", ";", " ", "}">>), locals |-> << <<Text(<<"z">>), Type("Int")>> >>,
       stmts |-> <<BlockStmt(<< >>)>>],
      [text |-> Text(<<"{", " ", "i", "n", "t", " ", "z", ";", " ", "z", " ", "=", " ", "1", ";", " ", "}">>), locals |-> << <<Text(<<"z">>), Type("Int")>> >>,
       stmts |-> <<BlockStmt(<<SetTo(Code["z"], 1)>>)>>],
      [text |-> Text(<<"w", "h", "i", "l", "e", " ", "(", "x", ")", " ", "{", " ", "i", "n", "t", " ", "z", ";", " ", "x", " ", "=", " ", "0", ";", " ", "}">>), locals |-> << <<Text(<<"z">>), Type("Int")>> >>,
       stmts |-> <<While(V(Code["x"]), BlockStmt(<<SetTo(Code["x"], 0)>>))>>] }
\* Sequences of up to MaxStmts of them in which the declarations come first.
DeclsFirst ==
    {ss \in UNION {[1 .. k -> LeadingDecls \cup PlainStmts] : k \in 0 .. MaxStmts} :
        \A i \in 1 .. Len(ss) - 1 : ss[i] \in PlainStmts => ss[i + 1] \in PlainStmts}
RECURSIVE LocalsOf(_)
LocalsOf(ss) == IF ss = << >> THEN << >> ELSE ss[1].locals \o LocalsOf(Tail(ss))
RECURSIVE StmtsOf(_)
StmtsOf(ss) == IF ss = << >> THEN << >> ELSE ss[1].stmts \o StmtsOf(Tail(ss))
TextOf(ss) == BodyText(Join([i \in 1 .. Len(ss) |-> ss[i].text]))
IsPrefix(s, t) == Len(s) <= Len(t) /\ SubSeq(t, 1, Len(s)) = s

\* C24: the declarations at the start of the function body and of nested
\* blocks produce no statement, their names are the locals of the function
\* in declaration order, and the statements after them parse as usual.
C24_LeadingDeclarationsAreLocals ==
    ParseDone =>
        \A ss \in DeclsFirst :
            input.src = TextOf(ss) =>
                /\ ParsedOk
                /\ parsed.v.items[1].locals = LocalsOf(ss)
                /\ IsPrefix(StmtsOf(ss), parsed.v.items[1].body)
\* The part of C24 that parse_func keeps: declarations at the start of the
\* function body, with no declaration inside a nested block.
C24_FunctionBodyDeclarations ==
    ParseDone =>
        \A ss \in DeclsFirst :
            (input.src = TextOf(ss) /\ \A i \in 1 .. Len(ss) : ss[i] \in PlainStmts => ss[i].locals = << >>) =>
                /\ ParsedOk
                /\ parsed.v.items[1].locals = LocalsOf(ss)
                /\ IsPrefix(StmtsOf(ss), parsed.v.items[1].body)

\* The postfix forms of the texts and the node each makes of its operand.
PostfixTree(post, e) ==
    CASE post = Text(<<"[", "0", "]">>) -> Index(e, Num(I64(0, 0)))
      [] post = Text(<<"+", "+">>) -> Unary("PostInc", e)
      [] post = Text(<<"-", "-">>) -> Unary("PostDec", e)
      [] post = Text(<<"(", "x", ")">>) -> Call(e, <<V(Code["x"])>>)
      [] post = Text(<<"(", ")">>) -> Call(e, << >>)
      [] post = Text(<<"(", "x", ",", " ", "y", ")">>) -> Call(e, <<V(Code["x"]), V(Code["y"])>>)
GroupedNames == {Code["a"], Code["f"]}
PostfixForms == { Text(<<"[", "0", "]">>), Text(<<"+", "+">>), Text(<<"-", "-">>), Text(<<"(", "x", ")">>), Text(<<"(", ")">>), Text(<<"(", "x", ",", " ", "y", ")">>) }

\* C27: a postfix operator after a parenthesized name applies to the name:
\* (a)[0], (a)++ and (f)(x) are Index, PostInc and Call of the grouped
\* expression, and (int)a is a cast.
C27_PostfixAppliesToGrouping ==
    ParseDone =>
        /\ \A c \in GroupedNames, post \in PostfixForms :
               input.src = ReturnText(<<Code["("], c, Code[")"]>> \o post) =>
                   Returns(PostfixTree(post, V(c)))
        /\ input.src = ReturnText(Text(<<"(", "i", "n", "t", ")", "a">>)) => Returns(Cast(Type("Int"), V(Code["a"])))
\* The same forms without the parentheses, and the cast, which the parser
\* keeps.
C27_PostfixAppliesToName ==
    ParseDone =>
        /\ \A c \in GroupedNames, post \in PostfixForms :
               input.src = ReturnText(<<c>> \o post) => Returns(PostfixTree(post, V(c)))
        /\ input.src = ReturnText(Text(<<"(", "i", "n", "t", ")", "a">>)) => Returns(Cast(Type("Int"), V(Code["a"])))

\* The instruction a call of a push method is to add.
Added(call) ==
    CASE call.fn = "push" -> [tag |-> "Instr", op |-> call.op]
      [] call.fn = "push_int" -> [tag |-> "InstrInt", op |-> call.op, val |-> call.arg]
      [] call.fn = "push_jump" -> [tag |-> "Jump", op |-> call.op, target |-> call.arg]
      [] call.fn = "push_call" -> [tag |-> "Call", op |-> call.op, target |-> call.arg]

\* C25: after each of push, push_int, push_jump and push_call the chunk is
\* one instruction longer, the instruction at the last index has the shape of
\* the method with the opcode and operand given, and the instructions that
\* were in the chunk are unchanged at their indices.
C25_AppendOnly ==
    pushed # NoPush =>
        /\ Len(chunk.code) = Len(pushed.before) + 1
        /\ chunk.code[Len(chunk.code)] = Added(pushed)
        /\ \A i \in 1 .. Len(pushed.before) : chunk.code[i] = pushed.before[i]
\* push(PSH), push_int(IMM, 42), push(ADD) and a push_call made on a chunk
\* that holds a jump.
C25_Witness ==
    \/ /\ pushed.fn = "push"
       /\ chunk.code = <<Instruction_Instr("PSH"), Instruction_InstrInt("IMM", I64Of(42)),
                         Instruction_Instr("ADD")>>
    \/ /\ pushed.fn = "push_call"
       /\ Len(chunk.code) = MaxChunk
       /\ chunk.code[1].tag = "Jump"

(***************************************************************************)
(* Branch targets.  The layout of the code of a statement that starts at   *)
(* instruction index `base`: every branch it holds, with its own index,    *)
(* its opcode and the index it is to target.                               *)
(***************************************************************************)
SizeE(e) == CodeLen(compile_expr(e, NewCode))
SizeS(s) == CodeLen(compile_stmt(s, NewCode))
Branch(pos, op, target) == [pos |-> pos, opcode |-> op, target |-> target]
RECURSIVE BranchesE(_, _)
RECURSIVE BranchesArgs(_, _, _)
RECURSIVE BranchesS(_, _)
RECURSIVE BranchesSeq(_, _, _)
\* cond, Jz -> else part, then part, Jmp -> after the whole, else part
BranchesE(e, base) ==
    CASE e.tag = "Unary" -> BranchesE(e.expr, base)
      [] e.tag = "Binary" ->
            BranchesE(e.left, base) \cup BranchesE(e.right, base + SizeE(e.left) + 1)
      [] e.tag = "Conditional" ->
            LET jz == base + SizeE(e.cond)
                jmp == jz + 1 + SizeE(e.then_expr)
            IN {Branch(jz, "Jz", jmp + 1), Branch(jmp, "Jmp", jmp + 1 + SizeE(e.else_expr))}
               \cup BranchesE(e.cond, base) \cup BranchesE(e.then_expr, jz + 1)
               \cup BranchesE(e.else_expr, jmp + 1)
      [] e.tag = "Call" -> BranchesArgs(e.args, Len(e.args), base)
      [] OTHER -> {}
BranchesArgs(args, k, base) ==
    IF k = 0 THEN {}
    ELSE BranchesE(args[k], base) \cup BranchesArgs(args, k - 1, base + SizeE(args[k]) + 1)
BranchesS(s, base) ==
    CASE s.tag = "Expr" -> BranchesE(s.expr, base)
      [] s.tag = "Return" -> IF s.expr # << >> THEN BranchesE(s.expr[1], base) ELSE {}
      [] s.tag = "Block" -> BranchesSeq(s.stmts, 1, base)
      [] s.tag = "If" ->
            LET jz == base + SizeE(s.cond)
                jmp == jz + 1 + SizeS(s.then_branch)
            IN BranchesE(s.cond, base) \cup BranchesS(s.then_branch, jz + 1)
               \cup IF s.else_branch # << >>
                    THEN {Branch(jz, "Jz", jmp + 1),
                          Branch(jmp, "Jmp", jmp + 1 + SizeS(s.else_branch[1]))}
                         \cup BranchesS(s.else_branch[1], jmp + 1)
                    ELSE {Branch(jz, "Jz", jmp)}
      [] s.tag = "While" ->
            LET jz == base + SizeE(s.cond)
                jmp == jz + 1 + SizeS(s.body)
            IN {Branch(jz, "Jz", jmp + 1), Branch(jmp, "Jmp", base)}
               \cup BranchesE(s.cond, base) \cup BranchesS(s.body, jz + 1)
      [] OTHER -> {}
BranchesSeq(stmts, k, base) ==
    IF k > Len(stmts) THEN {}
    ELSE BranchesS(stmts[k], base) \cup BranchesSeq(stmts, k + 1, base + SizeS(stmts[k]))

\* The branches of the code compile returned for a program that is main alone.
Compiled ==
    /\ input.kind = "ast"
    /\ status \notin {"init", "panic"} \/ (status = "panic" /\ code # << >>)
IsMainAlone ==
    /\ Len(input.program.items) = 1
    /\ input.program.items[1].tag = "Function"
    /\ input.program.items[1].name = "main"
BranchOps == {"Jz", "Jmp", "Jnz"}
BranchesOfCode ==
    {Branch(i - 1, code[i].opcode, code[i].operand[1]) :
        i \in {j \in 1 .. Len(code) : code[j].opcode \in BranchOps /\ code[j].operand # << >>}}
PatchedAt(pos) == PatchHere([code |-> code, panic |-> << >>], pos).code

\* C26: in the code compile returns every branch has an operand in
\* 0 .. len(code); the branch-if-zero of an if, a ternary or a while targets
\* the first instruction after the part it skips, the jump after a then part
\* targets the first instruction after the construct and the jump that ends
\* a while targets the first instruction of its condition, so no branch keeps
\* the placeholder; and patching an instruction changes its operand only.
C26_BranchTargets ==
    (Compiled /\ IsMainAlone) =>
        /\ \A i \in 1 .. Len(code) :
               code[i].opcode \in BranchOps =>
                   /\ code[i].operand # << >>
                   /\ code[i].operand[1] \in 0 .. Len(code)
        /\ BranchesOfCode = BranchesSeq(MainBody, 1, 0)
        /\ \A b \in BranchesOfCode :
               /\ b.opcode = "Jz" => b.target > b.pos
               /\ Len(PatchedAt(b.pos)) = Len(code)
               /\ \A j \in 1 .. Len(code) :
                      /\ PatchedAt(b.pos)[j].opcode = code[j].opcode
                      /\ j # b.pos + 1 => PatchedAt(b.pos)[j] = code[j]
\* The code of `return c ? (0 ? 2 : 3) : (1 ? 4 : 5);` with its six branches,
\* and the code of a while after a ternary with its back jump.
C26_Witness ==
    /\ Compiled /\ IsMainAlone
    /\ \/ /\ input.program \in TernaryProgs
          /\ Cardinality(BranchesOfCode) = 6
          /\ \E b \in BranchesOfCode : b.opcode = "Jmp" /\ b.target = Len(code) - 2
       \/ /\ input.program \in TernaryProgs
          /\ \E b \in BranchesOfCode : b.opcode = "Jmp" /\ b.target < b.pos /\ b.target > 0

(***************************************************************************)
(* Unary operators.  The value of an expression of literals, unary minus,  *)
(* logical not and the binary operators.                                   *)
(***************************************************************************)
RECURSIVE UnaryValueOf(_)
UnaryValueOf(e) ==
    CASE e.tag = "Num" -> IF LitFits(e.n) THEN Defined(e.n.lo) ELSE Undefined
      [] e.tag = "Unary" /\ e.op = "Neg" ->
            LET v == UnaryValueOf(e.expr)
            IN IF v.def /\ v.v # I32Min THEN Defined(0 - v.v) ELSE Undefined
      [] e.tag = "Unary" /\ e.op = "Not" ->
            LET v == UnaryValueOf(e.expr)
            IN IF v.def THEN Defined(IF v.v = 0 THEN 1 ELSE 0) ELSE Undefined
      [] e.tag = "Binary" /\ e.op \in AllBinOps ->
            LET l == UnaryValueOf(e.left)
                r == UnaryValueOf(e.right)
            IN IF l.def /\ r.def THEN Meaning(OperatorOf(e.op), l.v, r.v) ELSE Undefined
      [] OTHER -> Undefined

\* C28: a program that returns an expression with unary minus in it runs
\* without a fault and returns the value of the expression, -v for -e, with
\* the stack as it was before the expression: return -5 gives -5 and
\* return 10 + -3 gives 7.
C28_UnaryMinus ==
    (input.kind = "ast" /\ input.program \in NegProgs /\ status # "init") =>
        /\ status # "panic"
        /\ Terminal =>
              /\ result = << UnaryValueOf(ReturnedExpr).v >>
              /\ stack = << >>

\* C29: the not instruction leaves 1 when the accumulator was 0 and 0
\* otherwise; return !e gives 1 or 0 accordingly, and if (!e) return 1;
\* runs its then-branch exactly when e is 0.
NotOperand == MainBody[1].cond.expr.n.lo
NotIfElse == MainBody[1].else_branch
C29_LogicalNot ==
    /\ Ran({"Not"}) => acc = IF last.acc = 0 THEN 1 ELSE 0
    /\ (input.kind = "ast" /\ input.program \in NotProgs \ NotIfProgs /\ Terminal) =>
          result = << UnaryValueOf(ReturnedExpr).v >>
    /\ (input.kind = "ast" /\ input.program \in NotIfProgs /\ Terminal) =>
          result = << IF NotOperand = 0 THEN 1 ELSE IF NotIfElse # << >> THEN 2 ELSE 8 >>
\* The part of C29 the code keeps: !0 is not 0, so if (!0) runs its
\* then-branch.
C29_NotOfZeroIsTrue ==
    (input.kind = "ast" /\ input.program \in NotIfProgs /\ Terminal /\ NotOperand = 0) =>
        result = <<1>>

(***************************************************************************)
(* Termination of programs without a loop.                                 *)
(***************************************************************************)
RECURSIVE HasWhile(_)
HasWhile(s) ==
    CASE s.tag = "While" -> TRUE
      [] s.tag = "Block" -> \E i \in 1 .. Len(s.stmts) : HasWhile(s.stmts[i])
      [] s.tag = "If" ->
            HasWhile(s.then_branch) \/ (s.else_branch # << >> /\ HasWhile(s.else_branch[1]))
      [] OTHER -> FALSE
LoopFree ==
    /\ input.kind = "ast"
    /\ \A k \in 1 .. Len(input.program.items) :
           input.program.items[k].tag = "Function" =>
               \A i \in 1 .. Len(input.program.items[k].body) :
                   ~HasWhile(input.program.items[k].body[i])
Accepted == LoopFree /\ compile(input.program).panic = << >>

\* In the code of an accepted program without while every jump targets a
\* higher index than its own, each step leaves the program counter higher
\* than it found it and at most at the end of the code, and no instruction
\* runs twice or is about to.
ProgramCounterIncreases ==
    (Accepted /\ status # "init") =>
        /\ \A i \in 1 .. Len(code) :
               (code[i].opcode \in BranchOps /\ code[i].operand # << >>) =>
                   code[i].operand[1] > i - 1
        /\ last.opcode # "none" => pc > last.pc
        /\ pc <= Len(code)
        /\ \A p \in DOMAIN hits : hits[p] <= 1
        /\ (status = "running" /\ pc < Len(code)) => hits[pc] = 0
\* C30: the run of an accepted program without while terminates: the program
\* counter strictly increases at each step, every jump targeting a higher
\* index, and the run, once started, reaches its end (a return or a panic).
C30_LoopFreeRunTerminates ==
    /\ []ProgramCounterIncreases
    /\ (Accepted /\ status = "running") ~> Terminal
\* A run has taken the jump at the end of a then-part over the else-part and
\* has returned.
C30_Witness ==
    /\ Accepted /\ status = "returned"
    /\ \E i \in 1 .. Len(code) - 1 :
           code[i].opcode = "Jmp" /\ hits[i - 1] = 1 /\ hits[i] = 0

====
